---- MODULE Spec2Model ----
(***************************************************************************)
(* A model of src/server.py: the document ingestion pipeline.              *)
(*                                                                         *)
(* The module holds several specifications over one set of variables, one  *)
(* per component; a specification leaves the variables of the other        *)
(* components at their initial values.                                     *)
(*                                                                         *)
(*   SpecRL   RateLimiter, every call one step (the lock makes it so)      *)
(*   SpecRLC  RateLimiter, concurrent callers, one step per statement      *)
(*   SpecRLS  RateLimiter, swept, next to one that is never swept          *)
(*   SpecSan  sanitize_name, applied once and again to a drawn name        *)
(*   SpecCodec  a stored filename built from drawn parts, then parsed      *)
(*   SpecClassify  the scoring loop of classify_text on a drawn text       *)
(*   SpecCache  classify_text behind its lru_cache, call after call        *)
(*   SpecUp   upload_files: one request, its units of work interleaved     *)
(*   SpecSweep  cleanup_old_files: one run over the upload folder           *)
(*   SpecWA   write_atomic: one call, with readers of dest                  *)
(*   SpecScan   list_files, download_file, download_zip, delete_file, with  *)
(*              files of the upload folder deleted under them               *)
(*   SpecLookup download_file and delete_file, call after call              *)
(*   SpecLife   lifespan: the cleanup loop, the executor, the shutdown       *)
(*   SpecLifeFair  the same, the event loop and the workers making progress *)
(*                                                                         *)
(* A Python str is a sequence of code points (TLC has no characters).      *)
(***************************************************************************)
EXTENDS Integers, Sequences, FiniteSets, TLC

VARIABLES
    now,        \* time.time(), in whole seconds
    requests,   \* RateLimiter._requests: identifier -> deque of timestamps
    last,       \* the last is_limited call: its identifier, time and result
    lastAdmit,  \* history: identifier -> time of its latest admitted call, -1 if none
    burst,      \* history: identifier -> calls since it last had no call within the window
    fixedWin,   \* history: identifier -> the fixed window a reader of the spec may assume
    lock,       \* RateLimiter._lock: the task holding it, or NoTask
    pc,         \* task -> the statement it is at
    loc,        \* task -> its local variables (identifier, now, expired, returned)
    log,        \* history: identifier -> timestamps of the calls admitted, newest last
    san,        \* sanitize_name: the name and max_length drawn, the results
    codec,      \* stored filename: the parts drawn, the name built, what the parse returns
    cls,        \* the scoring loop: the text drawn and the category returned
    cache,      \* lru_cache of classify_text: entries, least recently used first
    call,       \* the last call of classify_text: its text, result, hit or miss,
                \* the keys held by insertion and by last use, the key it evicted
    answers,    \* history: text -> the categories classify_text has returned for it
    files,      \* upload_files: the files of the request
    req,        \* upload_files: where the handler is, the file it stages next, its HTTP status
    temp,       \* the temporary directory: the staged files that exist (by index in files)
    temp_files, \* upload_files: the staged files, in order
    unit,       \* staged file -> its process_single_file: position, locals, result
    store,      \* settings.upload_folder: stored name -> content
    processed,  \* upload_files: the list returned
    folder,     \* settings.upload_folder as a scan finds it: name -> is_file, st_mtime
    sweep,      \* cleanup_old_files: position, time.time(), the OSErrors it meets, removed
    disk,       \* write_atomic: path -> content, for dest and the temporary file beside it
    wa,         \* write_atomic: position, data, chunks written, what dest held at the call
    seen,       \* the last read of dest by another task: what it got and when
    scan,       \* the handler that scans the folder: its call, position, locals, answer
    calls,      \* the number of handler calls made
    gone,       \* history: the ids delete_file has answered "deleted" for
    life        \* lifespan: the application, its cleanup loop, the jobs of the executor

rlVars == <<now, requests, last, lastAdmit, burst, fixedWin>>
ccVars == <<lock, pc, loc, log>>

fnVars == <<san, codec, cls>>
cacheVars == <<cache, call, answers>>

upVars == <<files, req, temp, temp_files, unit, store, processed>>

fsVars == <<folder, sweep, disk, wa, seen, scan, calls, gone>>

vars == <<rlVars, ccVars, fnVars, cacheVars, upVars, fsVars, life>>

\* what the actions of each specification leave alone
notRL == <<ccVars, fnVars, cacheVars, upVars, fsVars, life>>
notRLC == <<last, lastAdmit, burst, fixedWin, fnVars, cacheVars, upVars, fsVars, life>>
notRLS == <<lastAdmit, burst, fixedWin, lock, pc, loc, fnVars, cacheVars, upVars, fsVars, life>>
notSan == <<rlVars, ccVars, codec, cls, cacheVars, upVars, fsVars, life>>
notCodec == <<rlVars, ccVars, san, cls, cacheVars, upVars, fsVars, life>>
notClassify == <<rlVars, ccVars, san, codec, cacheVars, upVars, fsVars, life>>
notCache == <<rlVars, ccVars, fnVars, upVars, fsVars, life>>
notUp == <<rlVars, ccVars, fnVars, cacheVars, fsVars, life>>
notSweep == <<rlVars, ccVars, fnVars, cacheVars, upVars, disk, wa, seen, scan, calls, gone, life>>
notWA == <<rlVars, ccVars, fnVars, cacheVars, upVars, folder, sweep, scan, calls, gone, life>>
notScan == <<rlVars, ccVars, fnVars, cacheVars, upVars, sweep, disk, wa, seen, life>>
notLife == <<rlVars, ccVars, fnVars, cacheVars, upVars, fsVars>>

(***************************************************************************)
(* Bounds of the model.                                                    *)
(***************************************************************************)
\* RateLimiter(rate_per_minute, window_seconds): the constructor's arguments
Rate == 2
Window == 2
\* the clock stops here
MaxTime == 5

\* the longest name drawn for sanitize_name, and the largest max_length
MaxNameLen == 4
MaxMaxLength == 4
\* the longest tail of a first or last name drawn for a stored filename
MaxTailLen == 2
\* the most fragments a drawn text is made of
MaxFragments == 2
\* lru_cache(maxsize=...): 512 in the source, scaled down so that a few calls
\* fill the cache and evict
CacheMaxSize == 2
\* the most files one request uploads
MaxFiles == 2
\* the most entries the upload folder holds when cleanup_old_files runs
MaxEntries == 2
\* the most pieces the operating system writes the data of write_atomic in
MaxChunks == 2
\* the most calls of the handlers that scan the upload folder
MaxCalls == 2
\* the most OCR jobs the executor has in flight
MaxJobs == 2

Ids == {"ip1", "ip2"}

NoCall == [id |-> "", at |-> -1, limited |-> FALSE]

(***************************************************************************)
(* Strings                                                                 *)
(***************************************************************************)
Underscore == 95
Hyphen == 45
Space == 32
Dot == 46
LetterA == 97

\* str.isalnum() of one character: ASCII digits and letters, Cyrillic letters
IsAlnum(c) ==
    \/ c \in 48..57
    \/ c \in 65..90
    \/ c \in 97..122
    \/ c \in 1024..1153
    \/ c \in 1162..1279

\* all sequences over `chars` of length at most n
RECURSIVE Strings(_, _)
Strings(chars, n) ==
    IF n = 0 THEN {<<>>}
    ELSE LET shorter == Strings(chars, n - 1)
         IN  shorter \cup {Append(w, c) : w \in {v \in shorter : Len(v) = n - 1}, c \in chars}

(***************************************************************************)
(* sanitize_name                                                           *)
(***************************************************************************)
\* "anon"
Anon == <<97, 110, 111, 110>>

\* c if (c.isalnum() or c in ("_", "-")) else "_"
SafeChar(c) == IF IsAlnum(c) \/ c \in {Underscore, Hyphen} THEN c ELSE Underscore

\* "__" in safe
HasDouble(s) ==
    \E i \in 1..(Len(s) - 1) : s[i] = Underscore /\ s[i + 1] = Underscore

\* safe.replace("__", "_"): one pass, left to right, occurrences not overlapping
RECURSIVE ReplaceDouble(_)
ReplaceDouble(s) ==
    IF Len(s) < 2 THEN s
    ELSE IF s[1] = Underscore /\ s[2] = Underscore
         THEN <<Underscore>> \o ReplaceDouble(SubSeq(s, 3, Len(s)))
         ELSE <<s[1]>> \o ReplaceDouble(Tail(s))

\* while "__" in safe: safe = safe.replace("__", "_")
RECURSIVE Collapse(_)
Collapse(s) == IF HasDouble(s) THEN Collapse(ReplaceDouble(s)) ELSE s

\* safe.strip("_")
RECURSIVE LStrip(_)
LStrip(s) == IF s # <<>> /\ Head(s) = Underscore THEN LStrip(Tail(s)) ELSE s
RECURSIVE RStrip(_)
RStrip(s) ==
    IF s # <<>> /\ s[Len(s)] = Underscore THEN RStrip(SubSeq(s, 1, Len(s) - 1)) ELSE s
Strip(s) == RStrip(LStrip(s))

\* s[:n]
Truncate(s, n) == SubSeq(s, 1, IF Len(s) < n THEN Len(s) ELSE n)

\* a sanitizer that truncates first and strips afterwards
StripAfterTruncate(s, n) == Strip(Truncate(s, n))

\* safe.strip("_")[:max_length]
StripTruncate(s, n) == Truncate(Strip(s), n)

\* sanitize_name(name, max_length)
sanitize_name(name, max_length) ==
    IF name = <<>> THEN Anon
    ELSE LET safe == StripTruncate(Collapse([i \in 1..Len(name) |-> SafeChar(name[i])]),
                                   max_length)
         IN  IF safe = <<>> THEN Anon ELSE safe

(***************************************************************************)
(* Stored filenames                                                        *)
(***************************************************************************)
\* DocumentCategory, in the order of its declaration
Categories == <<"Udostoverenie", "ENT", "Lgota", "Diplom", "Privivka", "MedSpravka">>
Unclassified == "Unclassified"

\* category.value
CategoryValue(c) ==
    IF c = "Udostoverenie" THEN <<85, 100, 111, 115, 116, 111, 118, 101, 114, 101, 110, 105, 101>>
    ELSE IF c = "ENT" THEN <<69, 78, 84>>
    ELSE IF c = "Lgota" THEN <<76, 103, 111, 116, 97>>
    ELSE IF c = "Diplom" THEN <<68, 105, 112, 108, 111, 109>>
    ELSE IF c = "Privivka" THEN <<80, 114, 105, 118, 105, 118, 107, 97>>
    ELSE IF c = "MedSpravka" THEN <<77, 101, 100, 83, 112, 114, 97, 118, 107, 97>>
    ELSE <<85, 110, 99, 108, 97, 115, 115, 105, 102, 105, 101, 100>>

\* ALLOWED_EXTENSIONS: ".pdf", ".jpg", ".jpeg", ".png"
AllowedExtensions ==
    {<<46, 112, 100, 102>>,
     <<46, 106, 112, 103>>,
     <<46, 106, 112, 101, 103>>,
     <<46, 112, 110, 103>>}

\* str.lower() of one character: ASCII and the Cyrillic capitals
LowerChar(c) ==
    IF c \in 65..90 THEN c + 32
    ELSE IF c \in 1040..1071 THEN c + 32
    ELSE IF c \in 1024..1039 THEN c + 80
    ELSE c

\* str.lower()
Lower(s) == [i \in 1..Len(s) |-> LowerChar(s[i])]

\* the last position of character c in s, 0 if none (str.rfind, counted from 1)
RFind(s, c) ==
    IF \E i \in 1..Len(s) : s[i] = c
    THEN CHOOSE i \in 1..Len(s) : s[i] = c /\ \A j \in (i + 1)..Len(s) : s[j] # c
    ELSE 0

\* Path(name).suffix, for a name that holds no path separator: from the last
\* dot on, unless that dot is the first or the last character
PathSuffix(name) ==
    LET d == RFind(name, Dot)
    IN  IF 1 < d /\ d < Len(name) THEN SubSeq(name, d, Len(name)) ELSE <<>>

\* Path(name).stem
PathStem(name) == SubSeq(name, 1, Len(name) - Len(PathSuffix(name)))

\* str(idx)
RECURSIVE Str(_)
Str(n) == IF n < 10 THEN <<48 + n>> ELSE Str(n \div 10) \o <<48 + (n % 10)>>

\* sanitize_name(x): max_length has its default
DefaultMaxLength == 50
sanitize(x) == sanitize_name(x, DefaultMaxLength)

\* base_name = f"{category.value}__{sanitize_name(name)}_{sanitize_name(lastname)}__
\*               {sanitize_name(Path(original_name).stem)}"
BaseName(category, name, lastname, original_name) ==
    CategoryValue(category) \o <<Underscore, Underscore>>
        \o sanitize(name) \o <<Underscore>> \o sanitize(lastname)
        \o <<Underscore, Underscore>> \o sanitize(PathStem(original_name))

\* candidate = f"{base_name}_{file_id}_{idx}{ext}"
Candidate(base_name, file_id, idx, ext) ==
    base_name \o <<Underscore>> \o file_id \o <<Underscore>> \o Str(idx) \o ext

\* filename.split("__"): occurrences found left to right, not overlapping
RECURSIVE Split(_)
Split(s) ==
    IF HasDouble(s)
    THEN LET i == CHOOSE i \in 1..(Len(s) - 1) :
                    /\ s[i] = Underscore /\ s[i + 1] = Underscore
                    /\ \A j \in 1..(i - 1) : ~(s[j] = Underscore /\ s[j + 1] = Underscore)
         IN  <<SubSeq(s, 1, i - 1)>> \o Split(SubSeq(s, i + 2, Len(s)))
    ELSE <<s>>

\* "__".join(parts[k:])
RECURSIVE Join(_, _)
Join(parts, k) ==
    IF k > Len(parts) THEN <<>>
    ELSE IF k = Len(parts) THEN parts[k]
    ELSE parts[k] \o <<Underscore, Underscore>> \o Join(parts, k + 1)

\* stem.rsplit("_", 2)
RSplit(stem) ==
    LET i == RFind(stem, Underscore)
    IN  IF i = 0 THEN <<stem>>
        ELSE LET head == SubSeq(stem, 1, i - 1)
                 j == RFind(head, Underscore)
             IN  IF j = 0 THEN <<head, SubSeq(stem, i + 1, Len(stem))>>
                 ELSE <<SubSeq(head, 1, j - 1), SubSeq(head, j + 1, Len(head)),
                        SubSeq(stem, i + 1, Len(stem))>>

\* parse_stored_filename returns None
None == [none |-> TRUE]

\* len(maybe_uuid) == 36
UuidLength == 36

\* parse_stored_filename(filename)
parse_stored_filename(filename) ==
    LET parts == Split(filename)
    IN  IF Len(parts) < 3 THEN None
        ELSE LET rev_parts == RSplit(PathStem(Join(parts, 3)))
                 maybe_uuid == IF Len(rev_parts) >= 2 THEN rev_parts[2] ELSE <<>>
             IN  [id |-> IF Len(maybe_uuid) = UuidLength THEN maybe_uuid ELSE <<>>,
                  category |-> parts[1],
                  name |-> parts[2],
                  original |-> rev_parts[1]]

\* str(uuid.uuid4()): 32 hexadecimal digits in groups of 8-4-4-4-12, the 13th a 4
Uuid4(digit) ==
    [i \in 1..UuidLength |->
        IF i \in {9, 14, 19, 24} THEN Hyphen ELSE IF i = 15 THEN 52 ELSE digit]

(***************************************************************************)
(* classify_text                                                           *)
(***************************************************************************)
\* CategoryKeywords: the keywords of each category, in the order of the source;
\* the comment above each keyword transliterates it
Keywords(c) ==
    IF c = "Udostoverenie" THEN <<
        \* udostoverenie
        <<1091, 1076, 1086, 1089, 1090, 1086, 1074, 1077, 1088, 1077, 1085, 1080,
          1077>>,
        \* ID
        <<73, 68>>
    >>
    ELSE IF c = "ENT" THEN <<
        \* sertifikat
        <<1089, 1077, 1088, 1090, 1080, 1092, 1080, 1082, 1072, 1090>>,
        \* TESTIROVANIYA
        <<1058, 1045, 1057, 1058, 1048, 1056, 1054, 1042, 1040, 1053, 1048, 1071>>,
        \* TESTILEU
        <<1058, 1045, 1057, 1058, 1030, 1051, 1045, 1059>>,
        \* TESTIRUEMOGO
        <<1058, 1045, 1057, 1058, 1048, 1056, 1059, 1045, 1052, 1054, 1043, 1054>>,
        \* Nabrannye bally
        <<1053, 1072, 1073, 1088, 1072, 1085, 1085, 1099, 1077, 32, 1073, 1072,
          1083, 1083, 1099>>
    >>
    ELSE IF c = "Lgota" THEN <<
        \* l'gota
        <<1083, 1100, 1075, 1086, 1090, 1072>>,
        \* invalid
        <<1080, 1085, 1074, 1072, 1083, 1080, 1076>>,
        \* mnogodetnaya
        <<1084, 1085, 1086, 1075, 1086, 1076, 1077, 1090, 1085, 1072, 1103>>
    >>
    ELSE IF c = "Diplom" THEN <<
        \* diplom
        <<1076, 1080, 1087, 1083, 1086, 1084>>,
        \* attestat
        <<1072, 1090, 1090, 1077, 1089, 1090, 1072, 1090>>,
        \* bakalavr
        <<1073, 1072, 1082, 1072, 1083, 1072, 1074, 1088>>,
        \* magistr
        <<1084, 1072, 1075, 1080, 1089, 1090, 1088>>
    >>
    ELSE IF c = "Privivka" THEN <<
        \* privivka
        <<1087, 1088, 1080, 1074, 1080, 1074, 1082, 1072>>,
        \* privivochnyj pasport
        <<1087, 1088, 1080, 1074, 1080, 1074, 1086, 1095, 1085, 1099, 1081, 32,
          1087, 1072, 1089, 1087, 1086, 1088, 1090>>,
        \* vakcinirovanie
        <<1074, 1072, 1082, 1094, 1080, 1085, 1080, 1088, 1086, 1074, 1072, 1085,
          1080, 1077>>,
        \* infekciya
        <<1080, 1085, 1092, 1077, 1082, 1094, 1080, 1103>>
    >>
    ELSE IF c = "MedSpravka" THEN <<
        \* medicinskaya spravka
        <<1084, 1077, 1076, 1080, 1094, 1080, 1085, 1089, 1082, 1072, 1103, 32,
          1089, 1087, 1088, 1072, 1074, 1082, 1072>>,
        \* spravka
        <<1089, 1087, 1088, 1072, 1074, 1082, 1072>>,
        \* medicinskij
        <<1084, 1077, 1076, 1080, 1094, 1080, 1085, 1089, 1082, 1080, 1081>>,
        \* tuberkulez
        <<1090, 1091, 1073, 1077, 1088, 1082, 1091, 1083, 1077, 1079>>,
        \* poliomelit
        <<1087, 1086, 1083, 1080, 1086, 1084, 1077, 1083, 1080, 1090>>,
        \* gepatit
        <<1075, 1077, 1087, 1072, 1090, 1080, 1090>>,
        \* vich
        <<1074, 1080, 1095>>,
        \* spid
        <<1089, 1087, 1080, 1076>>,
        \* karta rebenka
        <<1082, 1072, 1088, 1090, 1072, 32, 1088, 1077, 1073, 1077, 1085, 1082,
          1072>>,
        \* Degel'mintizaciya
        <<1044, 1077, 1075, 1077, 1083, 1100, 1084, 1080, 1085, 1090, 1080, 1079,
          1072, 1094, 1080, 1103>>,
        \* degel'mintizaciya
        <<1076, 1077, 1075, 1077, 1083, 1100, 1084, 1080, 1085, 1090, 1080, 1079,
          1072, 1094, 1080, 1103>>,
        \* klinicheskij analiz krovi
        <<1082, 1083, 1080, 1085, 1080, 1095, 1077, 1089, 1082, 1080, 1081, 32,
          1072, 1085, 1072, 1083, 1080, 1079, 32, 1082, 1088, 1086, 1074, 1080>>,
        \* analiz krovi
        <<1072, 1085, 1072, 1083, 1080, 1079, 32, 1082, 1088, 1086, 1074, 1080>>,
        \* analiz mochi
        <<1072, 1085, 1072, 1083, 1080, 1079, 32, 1084, 1086, 1095, 1080>>,
        \* mocha
        <<1084, 1086, 1095, 1072>>,
        \* krov'
        <<1082, 1088, 1086, 1074, 1100>>,
        \* flyuorografiya
        <<1092, 1083, 1102, 1086, 1088, 1086, 1075, 1088, 1072, 1092, 1080, 1103>>,
        \* flyuorograficheskoe obsledovanie
        <<1092, 1083, 1102, 1086, 1088, 1086, 1075, 1088, 1072, 1092, 1080, 1095,
          1077, 1089, 1082, 1086, 1077, 32, 1086, 1073, 1089, 1083, 1077, 1076,
          1086, 1074, 1072, 1085, 1080, 1077>>,
        \* flyuorografiya legkih
        <<1092, 1083, 1102, 1086, 1088, 1086, 1075, 1088, 1072, 1092, 1080, 1103,
          32, 1083, 1077, 1075, 1082, 1080, 1093>>
    >>
    ELSE <<>>

\* keyword in text_lower
Contains(text, keyword) ==
    \E i \in 0..(Len(text) - Len(keyword)) :
        \A j \in 1..Len(keyword) : text[i + j] = keyword[j]

\* hits = sum(1 for keyword in keywords if keyword.lower() in text_lower)
Hits(c, text_lower) ==
    Cardinality({k \in 1..Len(Keywords(c)) : Contains(text_lower, Lower(Keywords(c)[k]))})

\* a comparison that lets a later category with as many hits win
HitsAtLeast(hits, max_hits) == hits >= max_hits /\ hits > 0

\* if hits > max_hits
MoreHits(hits, max_hits) == hits > max_hits

\* for category, keywords in CATEGORY_KEYWORDS.items(): ... from the i-th on
RECURSIVE ScanCategories(_, _, _, _)
ScanCategories(i, text_lower, best_category, max_hits) ==
    IF i > Len(Categories) THEN best_category
    ELSE LET hits == Hits(Categories[i], text_lower)
         IN  IF MoreHits(hits, max_hits)
             THEN ScanCategories(i + 1, text_lower, Categories[i], hits)
             ELSE ScanCategories(i + 1, text_lower, best_category, max_hits)

\* a scoring loop that starts from the first category, for every text
classify_text_first_default(text) == ScanCategories(1, Lower(text), Categories[1], 0)

\* the function lru_cache wraps: the body of classify_text
classify_text_wrapped(text) ==
    IF text = <<>> THEN Unclassified
    ELSE ScanCategories(1, Lower(text), Unclassified, 0)

\* a cache keyed on the length of the text
KeyByLength(text) == Len(text)

\* the key lru_cache makes of the one positional str argument: the text itself
CacheKey(text) == text

\* the position of the entry of `key`, 0 if the cache has none
CacheFind(entries, key) ==
    IF \E i \in 1..Len(entries) : entries[i].key = key
    THEN CHOOSE i \in 1..Len(entries) : entries[i].key = key
    ELSE 0

\* the keys of `keys` that are none of `dropped`, in their order
Without(keys, dropped) ==
    SelectSeq(keys, LAMBDA k : \A j \in 1..Len(dropped) : dropped[j] # k)

\* the keys of the entries of `before` that `after` holds no more
Dropped(before, after) ==
    SelectSeq([i \in 1..Len(before) |-> before[i].key],
              LAMBDA k : CacheFind(after, k) = 0)

\* the first of `keys` when the cache is full, none otherwise
FirstIfFull(entries, keys) ==
    IF Len(entries) >= CacheMaxSize /\ keys # <<>> THEN <<Head(keys)>> ELSE <<>>

\* a cache whose hits leave the order of the entries alone
CacheLeave(entries, i) == entries

\* a hit moves the entry to the most recently used end
CacheTouch(entries, i) ==
    SubSeq(entries, 1, i - 1) \o SubSeq(entries, i + 1, Len(entries)) \o <<entries[i]>>

\* a miss stores the result, dropping the least recently used entry of a full cache
CacheStore(entries, key, value) ==
    Append(IF Len(entries) >= CacheMaxSize THEN Tail(entries) ELSE entries,
           [key |-> key, value |-> value])

(***************************************************************************)
(* RateLimiter                                                             *)
(***************************************************************************)
\* a limiter that prunes only what the sweep would drop
StaleTwice(t, at) == t < at - Window * 2

\* the timestamp at the head of the deque is outside the window
Stale(t, at) == t < at - Window

\* while requests and requests[0] < now - self.window: requests.popleft()
RECURSIVE Prune(_, _)
Prune(q, at) ==
    IF q # <<>> /\ Stale(Head(q), at) THEN Prune(Tail(q), at) ELSE q

\* self._requests[identifier] of a defaultdict(deque)
Deque(id) == IF id \in DOMAIN requests THEN requests[id] ELSE <<>>

\* a limiter that compares with > instead of >=
LimitedOffByOne(q) == Len(q) > Rate

\* if len(requests) >= self.rate: return True
Limited(q) == Len(q) >= Rate

\* a limiter that records every call, admitted or not
AfterCallRecorded(q, at) == Append(Prune(q, at), at)

\* the deque an is_limited call at time `at` leaves behind
AfterCall(q, at) ==
    LET p == Prune(q, at) IN IF Limited(p) THEN p ELSE Append(p, at)

\* a sweep that tests the oldest timestamp of the deque
ExpiredOldest(q, at) == q = <<>> \/ q[1] < at - Window * 2

\* if not reqs or reqs[-1] < now - self.window * 2
Expired(q, at) == q = <<>> \/ q[Len(q)] < at - Window * 2

\* History of the calls of one identifier. A burst begins with a call made when
\* the identifier has no admitted call in the last Window seconds.
NextBurst(id, lim) ==
    LET fresh == lastAdmit[id] = -1 \/ now - lastAdmit[id] > Window
        b == burst[id]
    IN  IF fresh
        THEN [start |-> now, idx |-> 1, hit |-> lim, regained |-> b.hit]
        ELSE [start |-> b.start,
              idx |-> IF b.idx > Rate THEN Rate + 1 ELSE b.idx + 1,
              hit |-> b.hit \/ lim,
              regained |-> b.regained]

\* The same history with windows that begin at a call and end Window seconds
\* later, whatever was admitted in between.
NextFixedWin(id) ==
    LET w == fixedWin[id]
        fresh == w.idx = 0 \/ now - w.start >= Window
    IN  IF fresh THEN [start |-> now, idx |-> 1]
        ELSE [start |-> w.start,
              idx |-> IF w.idx > Rate THEN Rate + 1 ELSE w.idx + 1]

NoTask == "none"
Callers == {"t1", "t2"}
Sweeper == "sweep"
Tasks == Callers \cup {Sweeper}
NoLocals == [id |-> "", now |-> -1, expired |-> {}, ret |-> "none"]

IdleCC ==
    /\ lock = NoTask
    /\ pc = [t \in Tasks |-> "idle"]
    /\ loc = [t \in Tasks |-> NoLocals]
    /\ log = [id \in Ids |-> <<>>]

IdleRL ==
    /\ now = 0
    /\ requests = <<>>
    /\ last = NoCall
    /\ lastAdmit = [id \in Ids |-> -1]
    /\ burst = [id \in Ids |-> [start |-> 0, idx |-> 0, hit |-> FALSE, regained |-> FALSE]]
    /\ fixedWin = [id \in Ids |-> [start |-> 0, idx |-> 0]]

IdleSan ==
    san = [name |-> <<>>, max_length |-> 0, once |-> <<>>, twice |-> <<>>, pc |-> "off"]

NoParts == [category |-> "", name |-> <<>>, lastname |-> <<>>,
            original_name |-> <<>>, file_id |-> <<>>, idx |-> 0]

IdleCodec == codec = [parts |-> NoParts, filename |-> <<>>, parsed |-> None, pc |-> "off"]

IdleClassify == cls = [text |-> <<>>, result |-> "", pc |-> "off"]

NoClassifyCall ==
    [text |-> <<>>, result |-> "", hit |-> FALSE, repeated |-> FALSE, pc |-> "off",
     inserted |-> <<>>, used |-> <<>>, evicted |-> <<>>, earliest |-> <<>>,
     stalest |-> <<>>]

\* pieces of extracted text: keywords of several categories in either case, a
\* patronymic that holds a keyword, and digits
Fragments ==
    {
     \* udostoverenie
     <<1091, 1076, 1086, 1089, 1090, 1086, 1074, 1077, 1088, 1077, 1085, 1080,
       1077>>,
     \* ID
     <<73, 68>>,
     \* sertifikat
     <<1089, 1077, 1088, 1090, 1080, 1092, 1080, 1082, 1072, 1090>>,
     \* l'gota
     <<1083, 1100, 1075, 1086, 1090, 1072>>,
     \* DIPLOM
     <<1044, 1048, 1055, 1051, 1054, 1052>>,
     \* privivka
     <<1087, 1088, 1080, 1074, 1080, 1074, 1082, 1072>>,
     \* medicinskaya spravka
     <<1084, 1077, 1076, 1080, 1094, 1080, 1085, 1089, 1082, 1072, 1103, 32,
       1089, 1087, 1088, 1072, 1074, 1082, 1072>>,
     \* Ivanovich
     <<1048, 1074, 1072, 1085, 1086, 1074, 1080, 1095>>,
     \* 12345
     <<49, 50, 51, 52, 53>>
    }

\* the example texts of the documentation
\* Vydano udostoverenie ID 12345
ExampleUdostoverenie ==
    <<1042, 1099, 1076, 1072, 1085, 1086, 32, 1091, 1076, 1086, 1089, 1090,
      1086, 1074, 1077, 1088, 1077, 1085, 1080, 1077, 32, 73, 68, 32, 49, 50,
      51, 52, 53>>
\* klinicheskij analiz krovi, flyuorografiya legkih
ExampleMedSpravka ==
    <<1082, 1083, 1080, 1085, 1080, 1095, 1077, 1089, 1082, 1080, 1081, 32,
      1072, 1085, 1072, 1083, 1080, 1079, 32, 1082, 1088, 1086, 1074, 1080,
      44, 32, 1092, 1083, 1102, 1086, 1088, 1086, 1075, 1088, 1072, 1092,
      1080, 1103, 32, 1083, 1077, 1075, 1082, 1080, 1093>>

\* the texts classify_text is called with behind its cache: "", "ID", "l'gota",
\* "DIPLOM", "Ivanovich"
CacheTexts ==
    {<<>>,
     <<73, 68>>,
     <<1083, 1100, 1075, 1086, 1090, 1072>>,
     <<1044, 1048, 1055, 1051, 1054, 1052>>,
     <<1048, 1074, 1072, 1085, 1086, 1074, 1080, 1095>>}

IdleCache ==
    /\ cache = <<>>
    /\ call = NoClassifyCall
    /\ answers = [t \in CacheTexts |-> {}]

IdleUp ==
    /\ files = <<>>
    /\ req = [pc |-> "off", i |-> 0, status |-> 0]
    /\ temp = {}
    /\ temp_files = <<>>
    /\ unit = <<>>
    /\ store = <<>>
    /\ processed = <<>>

IdleSweep == sweep = [pc |-> "off", now |-> 0, errors |-> <<>>, before |-> <<>>, removed |-> 0]

NoFile == [exists |-> FALSE, bytes |-> <<>>]
File(bytes) == [exists |-> TRUE, bytes |-> bytes]
Unread == [read |-> FALSE]

IdleWA ==
    /\ disk = <<>>
    /\ wa = [pc |-> "off", data |-> <<>>, written |-> 0, previous |-> NoFile]
    /\ seen = Unread

NoScan ==
    [op |-> "", pc |-> "off", file_id |-> <<>>, category |-> <<>>, name |-> <<>>,
     lastname |-> <<>>, listing |-> <<>>, k |-> 0, target |-> 0, results |-> <<>>,
     status |-> 0, before |-> <<>>, gone_before |-> {}]

IdleScan ==
    /\ scan = NoScan
    /\ calls = 0
    /\ gone = {}

IdleFs ==
    /\ folder = <<>>
    /\ IdleSweep
    /\ IdleWA
    /\ IdleScan

NoLife ==
    [app |-> "off", loop |-> "off", cancel |-> FALSE, inflight |-> 0, failed |-> FALSE,
     raised |-> "", recovered |-> FALSE, waited |-> FALSE]

IdleLife == life = NoLife

Idle ==
    /\ IdleRL /\ IdleCC /\ IdleSan /\ IdleCodec /\ IdleClassify /\ IdleCache /\ IdleUp
    /\ IdleFs /\ IdleLife

InitRL == Idle

\* time passes
Tick ==
    /\ now < MaxTime
    /\ now' = now + 1
    /\ UNCHANGED <<requests, last, lastAdmit, burst, fixedWin, notRL>>

\* RateLimiter.is_limited(identifier)
IsLimited(id) ==
    LET p == Prune(Deque(id), now)
        q == AfterCall(Deque(id), now)
    IN  /\ requests' = [k \in DOMAIN requests \cup {id} |-> IF k = id THEN q ELSE requests[k]]
        /\ last' = [id |-> id, at |-> now, limited |-> Limited(p)]
        /\ lastAdmit' = IF Limited(p) THEN lastAdmit ELSE [lastAdmit EXCEPT ![id] = now]
        /\ burst' = [burst EXCEPT ![id] = NextBurst(id, Limited(p))]
        /\ fixedWin' = [fixedWin EXCEPT ![id] = NextFixedWin(id)]
        /\ UNCHANGED <<now, notRL>>

\* RateLimiter.cleanup_old_entries()
CleanupOldEntries ==
    LET expired == {k \in DOMAIN requests : Expired(requests[k], now)}
    IN  /\ requests' = [k \in DOMAIN requests \ expired |-> requests[k]]
        /\ UNCHANGED <<now, last, lastAdmit, burst, fixedWin, notRL>>

NextRL ==
    \/ Tick
    \/ \E id \in Ids : IsLimited(id)
    \/ CleanupOldEntries

SpecRL == InitRL /\ [][NextRL]_vars

(***************************************************************************)
(* RateLimiter under concurrent callers: one step per statement, so that   *)
(* only self._lock keeps the callers apart.                                *)
(***************************************************************************)


\* a lock that anyone may take at any time
LockIgnored(t) == TRUE

\* async with self._lock: the lock is free
LockFree(t) == lock = NoTask

SetDeque(id, q) ==
    [k \in DOMAIN requests \cup {id} |-> IF k = id THEN q ELSE requests[k]]

\* the timestamps of log[id] that are not older than Window at time `at`
Recent(q, at) == SelectSeq(q, LAMBDA t : t >= at - Window)

InitRLC == InitRL

\* time passes, at any statement of any task
TickC ==
    /\ now < MaxTime
    /\ now' = now + 1
    /\ log' = [id \in Ids |-> Recent(log[id], now + 1)]
    /\ UNCHANGED <<requests, notRLC, lock, pc, loc>>

\* a request calls is_limited(identifier): async with self._lock
Call(t, id) ==
    /\ pc[t] = "idle"
    /\ LockFree(t)
    /\ lock' = t
    /\ pc' = [pc EXCEPT ![t] = "read"]
    /\ loc' = [loc EXCEPT ![t] = [NoLocals EXCEPT !.id = id]]
    /\ UNCHANGED <<now, requests, notRLC, log>>

\* now = time.time(); requests = self._requests[identifier]
ReadNow(t) ==
    /\ pc[t] = "read"
    /\ loc' = [loc EXCEPT ![t].now = now]
    /\ requests' = SetDeque(loc[t].id, Deque(loc[t].id))
    /\ pc' = [pc EXCEPT ![t] = "prune"]
    /\ UNCHANGED <<now, notRLC, lock, log>>

\* while requests and requests[0] < now - self.window: requests.popleft()
PruneStep(t) ==
    /\ pc[t] = "prune"
    /\ LET q == Deque(loc[t].id)
       IN  IF q # <<>> /\ Stale(Head(q), loc[t].now)
           THEN /\ requests' = SetDeque(loc[t].id, Tail(q))
                /\ pc' = pc
           ELSE /\ requests' = requests
                /\ pc' = [pc EXCEPT ![t] = "check"]
    /\ UNCHANGED <<now, notRLC, lock, loc, log>>

\* if len(requests) >= self.rate: return True
Check(t) ==
    /\ pc[t] = "check"
    /\ IF Limited(Deque(loc[t].id))
       THEN /\ loc' = [loc EXCEPT ![t].ret = "limited"]
            /\ pc' = [pc EXCEPT ![t] = "release"]
       ELSE /\ loc' = loc
            /\ pc' = [pc EXCEPT ![t] = "append"]
    /\ UNCHANGED <<now, requests, notRLC, lock, log>>

\* requests.append(now); return False
AppendStep(t) ==
    /\ pc[t] = "append"
    /\ requests' = SetDeque(loc[t].id, Append(Deque(loc[t].id), loc[t].now))
    /\ log' = [log EXCEPT ![loc[t].id] = Append(@, loc[t].now)]
    /\ loc' = [loc EXCEPT ![t].ret = "admitted"]
    /\ pc' = [pc EXCEPT ![t] = "release"]
    /\ UNCHANGED <<now, notRLC, lock>>

\* leaving async with self._lock; the call returns
Release(t) ==
    /\ pc[t] = "release"
    /\ lock' = IF lock = t THEN NoTask ELSE lock
    /\ pc' = [pc EXCEPT ![t] = "idle"]
    /\ loc' = [loc EXCEPT ![t] = NoLocals]
    /\ UNCHANGED <<now, requests, notRLC, log>>

\* the cleanup loop calls cleanup_old_entries(): async with self._lock
CallCleanup ==
    /\ pc[Sweeper] = "idle"
    /\ LockFree(Sweeper)
    /\ lock' = Sweeper
    /\ pc' = [pc EXCEPT ![Sweeper] = "scan"]
    /\ UNCHANGED <<now, requests, notRLC, loc, log>>

\* now = time.time(); expired = [key for key, reqs in ... if ...]
Scan ==
    /\ pc[Sweeper] = "scan"
    /\ loc' = [loc EXCEPT ![Sweeper].now = now,
                          ![Sweeper].expired =
                              {k \in DOMAIN requests : Expired(requests[k], now)}]
    /\ pc' = [pc EXCEPT ![Sweeper] = "delete"]
    /\ UNCHANGED <<now, requests, notRLC, lock, log>>

\* for key in expired: del self._requests[key]
DeleteStep ==
    /\ pc[Sweeper] = "delete"
    /\ IF loc[Sweeper].expired # {}
       THEN \E k \in loc[Sweeper].expired :
                /\ requests' = [j \in DOMAIN requests \ {k} |-> requests[j]]
                /\ loc' = [loc EXCEPT ![Sweeper].expired = @ \ {k}]
                /\ pc' = pc
       ELSE /\ pc' = [pc EXCEPT ![Sweeper] = "release"]
            /\ UNCHANGED <<requests, loc>>
    /\ UNCHANGED <<now, notRLC, lock, log>>

NextRLC ==
    \/ TickC
    \/ \E t \in Callers, id \in Ids : Call(t, id)
    \/ \E t \in Callers : ReadNow(t)
    \/ \E t \in Callers : PruneStep(t)
    \/ \E t \in Callers : Check(t)
    \/ \E t \in Callers : AppendStep(t)
    \/ \E t \in Tasks : Release(t)
    \/ CallCleanup
    \/ Scan
    \/ DeleteStep

SpecRLC == InitRLC /\ [][NextRLC]_vars

(***************************************************************************)
(* sanitize_name on drawn names                                            *)
(***************************************************************************)
\* the characters names are drawn from: a letter, "_", "-" and a space
NameChars == {LetterA, Underscore, Hyphen, Space}

InitSan ==
    /\ \E name \in Strings(NameChars, MaxNameLen), m \in 1..MaxMaxLength :
          san = [name |-> name, max_length |-> m, once |-> <<>>, twice |-> <<>>, pc |-> "drawn"]
    /\ IdleRL
    /\ IdleCC
    /\ IdleLife
    /\ IdleCodec
    /\ IdleClassify
    /\ IdleCache
    /\ IdleUp
    /\ IdleFs

\* sanitize_name(name, max_length)
Sanitize ==
    /\ san.pc = "drawn"
    /\ san' = [san EXCEPT !.once = sanitize_name(san.name, san.max_length), !.pc = "once"]
    /\ UNCHANGED notSan

\* sanitize_name(sanitize_name(name, max_length), max_length)
SanitizeAgain ==
    /\ san.pc = "once"
    /\ san' = [san EXCEPT !.twice = sanitize_name(san.once, san.max_length), !.pc = "twice"]
    /\ UNCHANGED notSan

NextSan == Sanitize \/ SanitizeAgain

SpecSan == InitSan /\ [][NextSan]_vars

(***************************************************************************)
(* Stored filenames built from drawn parts, then parsed                    *)
(***************************************************************************)
\* n letters
Pad(n) == [i \in 1..n |-> LetterA]

\* first and last names (Form(min_length=1)): short ones, and ones that reach
\* the length limit of sanitize_name
Names ==
    {Pad(n) \o tail : n \in {0, DefaultMaxLength - 1},
                      tail \in Strings({LetterA, Space}, MaxTailLen)} \ {<<>>}

\* "a.pdf", "a.b.PNG", "a b.jpeg", "_.jpg"
OriginalNames ==
    {<<97, 46, 112, 100, 102>>,
     <<97, 46, 98, 46, 80, 78, 71>>,
     <<97, 32, 98, 46, 106, 112, 101, 103>>,
     <<95, 46, 106, 112, 103>>}

InitCodec ==
    /\ \E c \in 1..Len(Categories), name \in Names, lastname \in Names,
          original_name \in OriginalNames, idx \in {1, 1000} :
          codec = [parts |-> [category |-> Categories[c], name |-> name,
                              lastname |-> lastname, original_name |-> original_name,
                              file_id |-> Uuid4(102), idx |-> idx],
                   filename |-> <<>>, parsed |-> None, pc |-> "drawn"]
    /\ IdleRL
    /\ IdleCC
    /\ IdleLife
    /\ IdleSan
    /\ IdleClassify
    /\ IdleCache
    /\ IdleUp
    /\ IdleFs

\* process_single_file: ext, base_name and candidate
Encode ==
    /\ codec.pc = "drawn"
    /\ LET q == codec.parts
           ext == Lower(PathSuffix(q.original_name))
       IN  codec' = [codec EXCEPT
                        !.filename = Candidate(BaseName(q.category, q.name, q.lastname,
                                                        q.original_name),
                                               q.file_id, q.idx, ext),
                        !.pc = "stored"]
    /\ UNCHANGED notCodec

\* parse_stored_filename(file_path.name)
Parse ==
    /\ codec.pc = "stored"
    /\ codec' = [codec EXCEPT !.parsed = parse_stored_filename(codec.filename),
                              !.pc = "parsed"]
    /\ UNCHANGED notCodec

NextCodec == Encode \/ Parse

SpecCodec == InitCodec /\ [][NextCodec]_vars

(***************************************************************************)
(* classify_text: the scoring loop on drawn texts                          *)
(***************************************************************************)
\* texts of at most n fragments, a space between fragments
RECURSIVE FragmentTexts(_)
FragmentTexts(n) ==
    IF n = 0 THEN {<<>>}
    ELSE LET shorter == FragmentTexts(n - 1)
         IN  shorter \cup Fragments
                     \cup {t \o <<Space>> \o f : t \in shorter \ {<<>>}, f \in Fragments}

Texts == FragmentTexts(MaxFragments) \cup {ExampleUdostoverenie, ExampleMedSpravka}

InitClassify ==
    /\ \E text \in Texts : cls = [text |-> text, result |-> "", pc |-> "drawn"]
    /\ IdleRL
    /\ IdleCC
    /\ IdleLife
    /\ IdleSan
    /\ IdleCodec
    /\ IdleCache
    /\ IdleUp
    /\ IdleFs

\* the body of classify_text(text)
Classify ==
    /\ cls.pc = "drawn"
    /\ cls' = [cls EXCEPT !.result = classify_text_wrapped(cls.text), !.pc = "returned"]
    /\ UNCHANGED notClassify

NextClassify == Classify

SpecClassify == InitClassify /\ [][NextClassify]_vars

(***************************************************************************)
(* classify_text behind lru_cache                                          *)
(***************************************************************************)
InitCache == Idle

\* classify_text(text), the cache holding an entry for the text
ClassifyHit(text) ==
    LET i == CacheFind(cache, CacheKey(text))
    IN  /\ i # 0
        /\ cache' = CacheTouch(cache, i)
        /\ call' = [text |-> text, result |-> cache[i].value, hit |-> TRUE,
                    repeated |-> answers[text] # {}, pc |-> "returned",
                    inserted |-> call.inserted,
                    used |-> Append(Without(call.used, <<CacheKey(text)>>), CacheKey(text)),
                    evicted |-> Dropped(cache, cache'),
                    earliest |-> <<>>, stalest |-> <<>>]
        /\ answers' = [answers EXCEPT ![text] = @ \cup {cache[i].value}]
        /\ UNCHANGED notCache

\* classify_text(text), the cache holding no entry for the text
ClassifyMiss(text) ==
    LET result == classify_text_wrapped(text)
    IN  /\ CacheFind(cache, CacheKey(text)) = 0
        /\ cache' = CacheStore(cache, CacheKey(text), result)
        /\ call' = [text |-> text, result |-> result, hit |-> FALSE,
                    repeated |-> answers[text] # {}, pc |-> "returned",
                    inserted |-> Append(Without(call.inserted, Dropped(cache, cache')),
                                        CacheKey(text)),
                    used |-> Append(Without(call.used, Dropped(cache, cache')),
                                    CacheKey(text)),
                    evicted |-> Dropped(cache, cache'),
                    earliest |-> FirstIfFull(cache, call.inserted),
                    stalest |-> FirstIfFull(cache, call.used)]
        /\ answers' = [answers EXCEPT ![text] = @ \cup {result}]
        /\ UNCHANGED notCache

NextCache ==
    \/ \E text \in CacheTexts : ClassifyHit(text)
    \/ \E text \in CacheTexts : ClassifyMiss(text)

SpecCache == InitCache /\ [][NextCache]_vars

(***************************************************************************)
(* extract_text                                                            *)
(*                                                                         *)
(* A document is the texts of its pages. What the libraries do with it is  *)
(* drawn: whether pdf2image or PIL opens it, and for every page whether    *)
(* Tesseract reads it, fails, or runs out of time. A call returns a text   *)
(* or raises.                                                              *)
(***************************************************************************)
Raises == [raised |-> TRUE, text |-> <<>>]
Returns(text) == [raised |-> FALSE, text |-> text]

\* settings.max_text_extract_length
max_text_extract_length == 5000

\* pytesseract.image_to_string(optimized, ..., timeout=settings.tesseract_timeout):
\* TesseractError on failure, RuntimeError on timeout
image_to_string(page, ocr) == IF ocr = "ok" THEN Returns(page) ELSE Raises

\* extract_text_from_image(img)
extract_text_from_image(page, ocr) ==
    LET text == image_to_string(page, ocr)
    IN  IF text.raised THEN Returns(<<>>)
        ELSE Returns(Truncate(text.text, max_text_extract_length))

\* "\n".join(texts)
RECURSIVE JoinLines(_)
JoinLines(texts) ==
    IF texts = <<>> THEN <<>>
    ELSE IF Len(texts) = 1 THEN texts[1]
    ELSE texts[1] \o <<10>> \o JoinLines(Tail(texts))

\* for image in images: ... if total_length >= max_text_extract_length: break
RECURSIVE PageTexts(_, _, _)
PageTexts(pages, ocr, total_length) ==
    IF pages = <<>> THEN <<>>
    ELSE LET text == extract_text_from_image(Head(pages), Head(ocr))
         IN  IF text.raised THEN <<Raises>>
             ELSE IF total_length + Len(text.text) >= max_text_extract_length
             THEN <<text.text>>
             ELSE <<text.text>> \o PageTexts(Tail(pages), Tail(ocr),
                                             total_length + Len(text.text))

\* _extract_text_from_pdf(file_bytes): convert_from_bytes raises if it
\* cannot rasterize
extract_text_from_pdf(pages, engine) ==
    IF engine.open # "ok" THEN Returns(<<>>)
    ELSE LET texts == PageTexts(pages, engine.ocr, 0)
         IN  IF \E i \in 1..Len(texts) : texts[i] = Raises THEN Returns(<<>>)
             ELSE Returns(Truncate(JoinLines(texts), max_text_extract_length))

\* _extract_text_from_image_bytes(file_bytes): Image.open raises if it cannot
\* decode
extract_text_from_image_bytes(pages, engine) ==
    IF engine.open # "ok" THEN Returns(<<>>)
    ELSE LET text == extract_text_from_image(pages[1], engine.ocr[1])
         IN  IF text.raised THEN Returns(<<>>) ELSE text

\* extract_text(file_bytes, ext)
extract_text(pages, ext, engine) ==
    LET text == IF ext = <<46, 112, 100, 102>>
                THEN extract_text_from_pdf(pages, engine)
                ELSE extract_text_from_image_bytes(pages, engine)
    IN  IF text.raised THEN Returns(<<>>) ELSE text

\* the pages of an upload: one, with the text of the upload
Pages(f) == <<f.text>>

\* what the libraries do with a document of one page
Engines ==
    {[open |-> "fail", ocr |-> <<"ok">>]}
    \cup {[open |-> "ok", ocr |-> <<o>>] : o \in {"ok", "error", "timeout"}}

NoEngine == [open |-> "", ocr |-> <<>>]

(***************************************************************************)
(* upload_files: one request                                               *)
(*                                                                         *)
(* The awaits of process_single_file (read, run_in_executor, write_atomic) *)
(* are where the units of a batch interleave; what runs between two awaits *)
(* is one step. The first and last name of the request are the same in     *)
(* every stored name of the request and are left out of it, as are size    *)
(* and modified of a ProcessedFile. uuid4 gives every unit an id of its    *)
(* own; the store may hold names with that id before the unit runs, the    *)
(* case the probe loop is written for. The request holds at most           *)
(* max_files_per_upload files.                                             *)
(***************************************************************************)
\* ALLOWED_MIMETYPES
AllowedMimetypes ==
    {<<97, 112, 112, 108, 105, 99, 97, 116, 105, 111, 110, 47, 112, 100, 102>>,
     <<105, 109, 97, 103, 101, 47, 106, 112, 101, 103>>,
     <<105, 109, 97, 103, 101, 47, 106, 112, 103>>,
     <<105, 109, 97, 103, 101, 47, 112, 110, 103>>,
     <<105, 109, 97, 103, 101, 47, 112, 106, 112, 101, 103>>}

\* validate_file_extension(filename)
validate_file_extension(filename) == Lower(PathSuffix(filename)) \in AllowedExtensions

\* a check that lets a missing content type through
validate_mimetype_if_any(content_type) ==
    IF content_type = <<>> THEN TRUE ELSE Lower(content_type) \in AllowedMimetypes

\* validate_mimetype(content_type)
validate_mimetype(content_type) ==
    IF content_type = <<>> THEN FALSE ELSE Lower(content_type) \in AllowedMimetypes

\* the checks of save_upload_to_temp before it creates the temporary file
Accepted(f) ==
    /\ f.filename # <<>>
    /\ validate_file_extension(f.filename)
    /\ validate_mimetype(f.content_type)

\* The uploads a request is made of: filename, declared content type, whether
\* the body exceeds max_file_size, and the text the OCR engine reads in it.
\*   "a.pdf", application/pdf, a diploma        "b.PNG", IMAGE/PNG, no text
\*   "c.exe", application/pdf, a diploma        "d.pdf", text/plain, a diploma
\*   "f.png", no content type, a diploma
\*   "e.jpg", image/jpeg, larger than max_file_size
Uploads ==
    {[filename |-> <<97, 46, 112, 100, 102>>,
      content_type |-> <<97, 112, 112, 108, 105, 99, 97, 116, 105, 111, 110, 47, 112, 100, 102>>,
      too_large |-> FALSE, text |-> <<1044, 1048, 1055, 1051, 1054, 1052>>],
     [filename |-> <<98, 46, 80, 78, 71>>,
      content_type |-> <<73, 77, 65, 71, 69, 47, 80, 78, 71>>,
      too_large |-> FALSE, text |-> <<>>],
     [filename |-> <<99, 46, 101, 120, 101>>,
      content_type |-> <<97, 112, 112, 108, 105, 99, 97, 116, 105, 111, 110, 47, 112, 100, 102>>,
      too_large |-> FALSE, text |-> <<1044, 1048, 1055, 1051, 1054, 1052>>],
     [filename |-> <<100, 46, 112, 100, 102>>,
      content_type |-> <<116, 101, 120, 116, 47, 112, 108, 97, 105, 110>>,
      too_large |-> FALSE, text |-> <<1044, 1048, 1055, 1051, 1054, 1052>>],
     [filename |-> <<102, 46, 112, 110, 103>>,
      content_type |-> <<>>,
      too_large |-> FALSE, text |-> <<1044, 1048, 1055, 1051, 1054, 1052>>],
     [filename |-> <<101, 46, 106, 112, 103>>,
      content_type |-> <<105, 109, 97, 103, 101, 47, 106, 112, 101, 103>>,
      too_large |-> TRUE, text |-> <<>>]}

RECURSIVE Batches(_)
Batches(n) ==
    IF n = 0 THEN {<<>>}
    ELSE LET shorter == Batches(n - 1)
         IN  shorter \cup {Append(b, f) : b \in {c \in shorter : Len(c) = n - 1}, f \in Uploads}

\* if idx > 1000: break
CollisionLimit == 1000

\* str(uuid.uuid4()) of the unit of the u-th file
FileId(u) == u

\* candidate, as the parts it is built from
StoredName(category, original_name, file_id, idx) ==
    [category |-> category, original |-> original_name, id |-> file_id, idx |-> idx]

\* names 1..n of the diploma "a.pdf" uploaded first, written by an earlier run
\* (content 0; a unit writes its own number)
Taken(n) ==
    [name \in {StoredName("Diplom", <<97, 46, 112, 100, 102>>, FileId(1), i) : i \in 1..n}
        |-> 0]

\* the store when the request arrives: nothing the request can meet, or, for
\* a request whose first file is that diploma, 1 or (the request having at
\* most one more file) all 1000 of its names
Stores(batch) ==
    IF StoredName("Diplom", batch[1].filename, FileId(1), 1) \in DOMAIN Taken(1)
    THEN {<<>>, Taken(1)} \cup (IF Len(batch) <= 2 THEN {Taken(CollisionLimit)} ELSE {})
    ELSE {<<>>}

\* a unit that writes under idx 1 whatever the store holds
FirstIndex(category, original_name, file_id) == 1

\* the while True loop: the first idx in 1..1000 whose candidate does not exist,
\* 0 if all of them exist
FirstFree(category, original_name, file_id) ==
    LET free == {i \in 1..CollisionLimit :
                    StoredName(category, original_name, file_id, i) \notin DOMAIN store}
    IN  IF free = {} THEN 0 ELSE CHOOSE i \in free : \A j \in free : i <= j

NoName == [category |-> "", original |-> <<>>, id |-> 0, idx |-> 0]

\* ProcessedFile(id=..., original_name=..., category=..., filename=..., status=...)
ProcessedFile(u, r) ==
    [id |-> r.file_id, original_name |-> files[u].filename, category |-> r.category,
     filename |-> r.filename, status |-> r.status]

\* a unit that answers a failure with a record
ReturnFailedRecord(u, r) ==
    [r EXCEPT !.pc = "done", !.raised = r.pc,
              !.result = ProcessedFile(u, [r EXCEPT !.status = "failed"])]

\* except Exception: logger.exception(...); return None  (raised: the await
\* the exception came out of; "" while there was none. engine: what the
\* libraries did in extract_text)
ReturnNone(u, r) == [r EXCEPT !.pc = "done", !.raised = r.pc, !.result = None]

\* a unit whose record says saved whatever became of the file
ReturnSavedRecord(u, r) ==
    [r EXCEPT !.pc = "done", !.result = ProcessedFile(u, [r EXCEPT !.status = "saved"])]

\* return ProcessedFile(...)
ReturnRecord(u, r) == [r EXCEPT !.pc = "done", !.result = ProcessedFile(u, r)]

NewUnit ==
    [pc |-> "read", text |-> <<>>, category |-> "", file_id |-> 0, filename |-> NoName,
     status |-> "", result |-> None, raised |-> "", exhausted |-> FALSE,
     engine |-> NoEngine]

InitUp ==
    /\ files \in Batches(MaxFiles) \ {<<>>}
    /\ req = [pc |-> "admission", i |-> 0, status |-> 0]
    /\ temp = {}
    /\ temp_files = <<>>
    /\ unit = <<>>
    /\ store \in Stores(files)
    /\ processed = <<>>
    /\ IdleRL
    /\ IdleCC
    /\ IdleLife
    /\ IdleSan
    /\ IdleCodec
    /\ IdleClassify
    /\ IdleCache
    /\ IdleFs

\* a check of the rate limit made once the files are staged
CheckedAfterStaging == req.pc = "staging" /\ req.i > Len(files)

\* the place of the rate limit check in upload_files: before the staging loop
Checked == req.pc = "admission"

\* if await rate_limiter.is_limited(client_ip): raise HTTPException(429)
RateLimited ==
    /\ Checked
    /\ req' = [req EXCEPT !.pc = "rejected", !.status = 429]
    /\ UNCHANGED <<files, temp, temp_files, unit, store, processed, notUp>>

\* is_limited returns False
Admitted ==
    /\ req.pc = "admission"
    /\ req' = [req EXCEPT !.pc = "staging", !.i = 1]
    /\ UNCHANGED <<files, temp, temp_files, unit, store, processed, notUp>>

Staging == req.pc = "staging" /\ req.i <= Len(files)

\* save_upload_to_temp returns None: no filename, extension or content type refused
StageRefused ==
    /\ Staging
    /\ ~Accepted(files[req.i])
    /\ req' = [req EXCEPT !.i = @ + 1]
    /\ UNCHANGED <<files, temp, temp_files, unit, store, processed, notUp>>

\* save_upload_to_temp returns (filename, tmp_path)
StageSaved ==
    /\ Staging
    /\ Accepted(files[req.i])
    /\ ~files[req.i].too_large
    /\ temp' = temp \cup {req.i}
    /\ temp_files' = Append(temp_files, req.i)
    /\ req' = [req EXCEPT !.i = @ + 1]
    /\ UNCHANGED <<files, unit, store, processed, notUp>>

\* total_size > settings.max_file_size: tmp_path.unlink(); raise HTTPException(413)
StageTooLarge ==
    /\ Staging
    /\ Accepted(files[req.i])
    /\ files[req.i].too_large
    /\ req' = [req EXCEPT !.pc = "rejected", !.status = 413]
    /\ UNCHANGED <<files, temp, temp_files, unit, store, processed, notUp>>

\* except Exception: tmp_path.unlink(); raise HTTPException(400)
StageFails ==
    /\ Staging
    /\ Accepted(files[req.i])
    /\ req' = [req EXCEPT !.pc = "rejected", !.status = 400]
    /\ UNCHANGED <<files, temp, temp_files, unit, store, processed, notUp>>

\* if not temp_files: raise HTTPException(400)
NoValidFiles ==
    /\ req.pc = "staging"
    /\ req.i > Len(files)
    /\ temp_files = <<>>
    /\ req' = [req EXCEPT !.pc = "rejected", !.status = 400]
    /\ UNCHANGED <<files, temp, temp_files, unit, store, processed, notUp>>

Staged == {temp_files[k] : k \in 1..Len(temp_files)}

\* tasks = [process_single_file(...) for file_data in temp_files]; asyncio.gather
Dispatch ==
    /\ req.pc = "staging"
    /\ req.i > Len(files)
    /\ temp_files # <<>>
    /\ unit' = [u \in Staged |-> NewUnit]
    /\ req' = [req EXCEPT !.pc = "gather"]
    /\ UNCHANGED <<files, temp, temp_files, store, processed, notUp>>

Running(u, at) == req.pc = "gather" /\ u \in DOMAIN unit /\ unit[u].pc = at

\* finally: tmp_path.unlink(missing_ok=True), with whatever ends the unit
Finally(u) == temp' = temp \ {u}

\* file_bytes = await afp.read()
UnitRead(u) ==
    /\ Running(u, "read")
    /\ u \in temp
    /\ unit' = [unit EXCEPT ![u].pc = "extract"]
    /\ UNCHANGED <<files, req, temp, temp_files, store, processed, notUp>>

\* aiofiles.open or read raises
UnitReadFails(u) ==
    /\ Running(u, "read")
    /\ unit' = [unit EXCEPT ![u] = ReturnNone(u, @)]
    /\ Finally(u)
    /\ UNCHANGED <<files, req, temp_files, store, processed, notUp>>

\* text = await loop.run_in_executor(executor, extract_text, file_bytes, ext)
UnitExtract(u) ==
    /\ Running(u, "extract")
    /\ \E engine \in Engines :
          LET ext == Lower(PathSuffix(files[u].filename))
              text == extract_text(Pages(files[u]), ext, engine)
              r == [unit[u] EXCEPT !.engine = engine]
          IN  IF text.raised
              THEN unit' = [unit EXCEPT ![u] = ReturnNone(u, r)] /\ Finally(u)
              ELSE /\ unit' = [unit EXCEPT ![u] = [r EXCEPT !.pc = "classify",
                                                            !.text = text.text]]
                   /\ temp' = temp
    /\ UNCHANGED <<files, req, temp_files, store, processed, notUp>>

\* run_in_executor raises
UnitExtractRaises(u) ==
    /\ Running(u, "extract")
    /\ unit' = [unit EXCEPT ![u] = ReturnNone(u, @)]
    /\ Finally(u)
    /\ UNCHANGED <<files, req, temp_files, store, processed, notUp>>

\* category = classify_text(text) ... up to await write_atomic(dest, file_bytes),
\* or to the return if nothing is to be written
UnitClassify(u) ==
    /\ Running(u, "classify")
    /\ LET category == classify_text_wrapped(unit[u].text)
           idx == FirstFree(category, files[u].filename, FileId(u))
           r == [unit[u] EXCEPT !.category = category, !.file_id = FileId(u),
                                !.status = "unclassified"]
       IN  IF category = Unclassified
           THEN /\ unit' = [unit EXCEPT ![u] = ReturnRecord(u, r)]
                /\ Finally(u)
           ELSE IF idx = 0
           THEN /\ unit' = [unit EXCEPT ![u] = ReturnRecord(u, [r EXCEPT !.exhausted = TRUE])]
                /\ Finally(u)
           ELSE /\ unit' = [unit EXCEPT ![u] =
                               [r EXCEPT !.pc = "write",
                                         !.filename = StoredName(category, files[u].filename,
                                                                 FileId(u), idx)]]
                /\ temp' = temp
    /\ UNCHANGED <<files, req, temp_files, store, processed, notUp>>

\* await write_atomic(dest, file_bytes); status = "saved"; return ProcessedFile(...)
UnitWrite(u) ==
    /\ Running(u, "write")
    /\ store' = [n \in DOMAIN store \cup {unit[u].filename} |->
                    IF n = unit[u].filename THEN u ELSE store[n]]
    /\ unit' = [unit EXCEPT ![u] = ReturnRecord(u, [@ EXCEPT !.status = "saved"])]
    /\ Finally(u)
    /\ UNCHANGED <<files, req, temp_files, processed, notUp>>

\* write_atomic raises: the write or the rename fails
UnitWriteFails(u) ==
    /\ Running(u, "write")
    /\ unit' = [unit EXCEPT ![u] = ReturnNone(u, @)]
    /\ Finally(u)
    /\ UNCHANGED <<files, req, temp_files, store, processed, notUp>>

\* processed = [r for r in results if isinstance(r, ProcessedFile)]
RECURSIVE Records(_)
Records(staged) ==
    IF staged = <<>> THEN <<>>
    ELSE LET r == unit[Head(staged)].result
         IN  (IF r = None THEN <<>> ELSE <<r>>) \o Records(Tail(staged))

\* a wait that ends with the first unit that completes
FirstCompleted == \E u \in DOMAIN unit : unit[u].pc = "done"

\* await asyncio.gather(*tasks, ...): every task has completed
Gathered == \A u \in DOMAIN unit : unit[u].pc = "done"

\* results = await asyncio.gather(*tasks, return_exceptions=True); return processed;
\* finally: background_tasks.add_task(cleanup_temps)
Respond ==
    /\ req.pc = "gather"
    /\ Gathered
    /\ processed' = Records(temp_files)
    /\ req' = [req EXCEPT !.pc = "responded", !.status = 200]
    /\ UNCHANGED <<files, temp, temp_files, unit, store, notUp>>

\* cleanup_temps, run once the response is sent
CleanupTemps ==
    /\ req.pc = "responded"
    /\ temp' = temp \ Staged
    /\ req' = [req EXCEPT !.pc = "ended"]
    /\ UNCHANGED <<files, temp_files, unit, store, processed, notUp>>

NextUp ==
    \/ RateLimited
    \/ Admitted
    \/ StageRefused
    \/ StageSaved
    \/ StageTooLarge
    \/ StageFails
    \/ NoValidFiles
    \/ Dispatch
    \/ \E u \in DOMAIN unit : UnitRead(u)
    \/ \E u \in DOMAIN unit : UnitReadFails(u)
    \/ \E u \in DOMAIN unit : UnitExtract(u)
    \/ \E u \in DOMAIN unit : UnitExtractRaises(u)
    \/ \E u \in DOMAIN unit : UnitClassify(u)
    \/ \E u \in DOMAIN unit : UnitWrite(u)
    \/ \E u \in DOMAIN unit : UnitWriteFails(u)
    \/ Respond
    \/ CleanupTemps

SpecUp == InitUp /\ [][NextUp]_vars

(***************************************************************************)
(* cleanup_old_files                                                       *)
(*                                                                         *)
(* The function holds no await: one run is one step. The upload folder     *)
(* exists (lifespan creates it). Which entries raise OSError on stat() or  *)
(* unlink() is drawn with the folder.                                      *)
(***************************************************************************)
\* settings.max_file_age_days
max_file_age_days == 30

\* 24 * 3600
Day == 24 * 3600

\* time.time() when the sweep runs
SweepTime == (max_file_age_days + 2) * Day

\* cutoff = time.time() - settings.max_file_age_days * 24 * 3600
Cutoff(time) == time - max_file_age_days * Day

\* st_mtime of the entries drawn: aged max_file_age_days + 1 days, a second
\* more than max_file_age_days, exactly max_file_age_days, max_file_age_days - 1
Mtimes ==
    {SweepTime - (max_file_age_days + 1) * Day,
     Cutoff(SweepTime) - 1,
     Cutoff(SweepTime),
     SweepTime - (max_file_age_days - 1) * Day}

\* an entry of the folder: a directory, or a regular file with the OSError it
\* raises: "stat", "unlink" or "" for none
Entries ==
    {[is_file |-> FALSE, mtime |-> Cutoff(SweepTime) - 1, oserror |-> ""]}
    \cup [is_file : {TRUE}, mtime : Mtimes, oserror : {"", "stat", "unlink"}]

RECURSIVE Folders(_)
Folders(n) ==
    IF n = 0 THEN {<<>>}
    ELSE LET smaller == Folders(n - 1)
         IN  smaller \cup {Append(d, e) : d \in {c \in smaller : Len(c) = n - 1}, e \in Entries}

\* settings.upload_folder.iterdir(): the names in the folder, in some order
RECURSIVE Iterdir(_)
Iterdir(names) ==
    IF names = {} THEN <<>>
    ELSE LET first == CHOOSE n \in names : \A m \in names : n <= m
         IN  <<first>> \o Iterdir(names \ {first})

\* file_path.unlink()
Unlink(dir, name) == [n \in DOMAIN dir \ {name} |-> dir[n]]

\* a cutoff that takes the file of exactly max_file_age_days too
NotYounger(mtime, cutoff) == mtime <= cutoff

\* if mtime < cutoff
Old(mtime, cutoff) == mtime < cutoff

\* the for loop over the listing: the folder and the count it ends with
RECURSIVE SweepLoop(_, _, _, _, _)
SweepLoop(listing, dir, cutoff, errors, removed) ==
    IF listing = <<>> THEN [dir |-> dir, removed |-> removed]
    ELSE LET file_path == Head(listing)
             rest == Tail(listing)
         IN  IF ~dir[file_path].is_file
             THEN SweepLoop(rest, dir, cutoff, errors, removed)
             ELSE IF errors[file_path] = "stat"
             THEN SweepLoop(rest, dir, cutoff, errors, removed)
             ELSE IF Old(dir[file_path].mtime, cutoff)
             THEN IF errors[file_path] = "unlink"
                  THEN SweepLoop(rest, dir, cutoff, errors, removed)
                  ELSE SweepLoop(rest, Unlink(dir, file_path), cutoff, errors, removed + 1)
             ELSE SweepLoop(rest, dir, cutoff, errors, removed)

InitSweep ==
    /\ \E d \in Folders(MaxEntries) :
          /\ folder = [n \in DOMAIN d |-> [is_file |-> d[n].is_file, mtime |-> d[n].mtime]]
          /\ sweep = [pc |-> "sleep", now |-> 0, errors |-> [n \in DOMAIN d |-> d[n].oserror],
                      before |-> <<>>, removed |-> 0]
    /\ IdleRL
    /\ IdleCC
    /\ IdleLife
    /\ IdleSan
    /\ IdleCodec
    /\ IdleClassify
    /\ IdleCache
    /\ IdleUp
    /\ IdleWA
    /\ IdleScan

\* await cleanup_old_files(), from cleanup_loop
CleanupOldFiles ==
    /\ sweep.pc = "sleep"
    /\ LET end == SweepLoop(Iterdir(DOMAIN folder), folder, Cutoff(SweepTime),
                            sweep.errors, 0)
       IN  /\ folder' = end.dir
           /\ sweep' = [sweep EXCEPT !.pc = "returned", !.now = SweepTime,
                                     !.before = folder, !.removed = end.removed]
    /\ UNCHANGED notSweep

NextSweep == CleanupOldFiles

SpecSweep == InitSweep /\ [][NextSweep]_vars

(***************************************************************************)
(* write_atomic                                                            *)
(*                                                                         *)
(* The data reaches the file in pieces; another task, or another process,  *)
(* may read dest between any two steps. pathlib's replace is rename(2):    *)
(* the name dest changes from the old file to the new one in one step.     *)
(* unlink() of the temporary file the call has just created does not fail. *)
(***************************************************************************)
\* the paths of one call
DestPath == "dest"
TmpPath == "tmp"

\* data, as the pieces it is written in
Datas == Strings({1, 2}, MaxChunks)

\* what dest holds when write_atomic is called: nothing, or an earlier file
Previous == {NoFile, File(<<>>), File(<<7>>)}

\* what a read of path finds
Content(path) == IF path \in DOMAIN disk THEN File(disk[path]) ELSE NoFile

\* path holds content
Put(d, path, content) == [q \in DOMAIN d \cup {path} |-> IF q = path THEN content ELSE d[q]]

\* path.unlink(missing_ok=True)
Remove(d, path) == [q \in DOMAIN d \ {path} |-> d[q]]

\* a write that opens dest itself
OpenInPlace(dest_path, tmp_path) == dest_path

\* aiofiles.open(tmp_path, "wb"): the file the data is written to
Opened(dest_path, tmp_path) == tmp_path

InitWA ==
    /\ \E previous \in Previous, data \in Datas :
          /\ disk = IF previous = NoFile THEN <<>> ELSE Put(<<>>, DestPath, previous.bytes)
          /\ wa = [pc |-> "mkstemp", data |-> data, written |-> 0, previous |-> previous]
    /\ seen = Unread
    /\ IdleRL
    /\ IdleCC
    /\ IdleLife
    /\ IdleSan
    /\ IdleCodec
    /\ IdleClassify
    /\ IdleCache
    /\ IdleUp
    /\ folder = <<>>
    /\ IdleSweep
    /\ IdleScan

\* fd, tmp_path_str = tempfile.mkstemp(dir=str(dest.parent), ...); os.close(fd)
Mkstemp ==
    /\ wa.pc = "mkstemp"
    /\ disk' = Put(disk, TmpPath, <<>>)
    /\ wa' = [wa EXCEPT !.pc = "open"]
    /\ UNCHANGED <<seen, notWA>>

\* mkstemp raises: nothing is created
MkstempFails ==
    /\ wa.pc = "mkstemp"
    /\ wa' = [wa EXCEPT !.pc = "raised"]
    /\ UNCHANGED <<disk, seen, notWA>>

\* async with aiofiles.open(tmp_path, "wb") as afp: mode "wb" truncates
Open ==
    /\ wa.pc = "open"
    /\ disk' = Put(disk, Opened(DestPath, TmpPath), <<>>)
    /\ wa' = [wa EXCEPT !.pc = "write"]
    /\ UNCHANGED <<seen, notWA>>

\* await afp.write(data): the next piece reaches the file
WriteChunk ==
    /\ wa.pc = "write"
    /\ wa.written < Len(wa.data)
    /\ disk' = Put(disk, Opened(DestPath, TmpPath),
                   disk[Opened(DestPath, TmpPath)] \o <<wa.data[wa.written + 1]>>)
    /\ wa' = [wa EXCEPT !.written = @ + 1]
    /\ UNCHANGED <<seen, notWA>>

\* tmp_path.replace(dest); finally: tmp_path.unlink(missing_ok=True)
Replace ==
    /\ wa.pc = "write"
    /\ wa.written = Len(wa.data)
    /\ disk' = Remove(Put(disk, DestPath, disk[TmpPath]), TmpPath)
    /\ wa' = [wa EXCEPT !.pc = "returned"]
    /\ UNCHANGED <<seen, notWA>>

\* open, write or replace raises; finally: tmp_path.unlink(missing_ok=True)
WriteAtomicFails ==
    /\ wa.pc \in {"open", "write"}
    /\ disk' = Remove(disk, TmpPath)
    /\ wa' = [wa EXCEPT !.pc = "raised"]
    /\ UNCHANGED <<seen, notWA>>

\* another task reads dest
ReadDest ==
    /\ wa.pc # "off"
    /\ seen' = [read |-> TRUE, content |-> Content(DestPath), at |-> wa.pc,
                written |-> wa.written]
    /\ UNCHANGED <<disk, wa, notWA>>

NextWA ==
    \/ Mkstemp
    \/ MkstempFails
    \/ Open
    \/ WriteChunk
    \/ Replace
    \/ WriteAtomicFails
    \/ ReadDest

SpecWA == InitWA /\ [][NextWA]_vars

(***************************************************************************)
(* list_files, download_file, download_zip, delete_file                    *)
(*                                                                         *)
(* Every handler lists the upload folder and then works on the paths it    *)
(* has listed. A file of the folder may be unlinked between two of its     *)
(* steps: by delete_file or cleanup_old_files of another worker process,   *)
(* and, for the FileResponse that download_file returns, of this process   *)
(* too, since the response reads the file after the handler has returned.  *)
(* The folder holds files that upload_files stored, each with the id of    *)
(* its own unit, and entries that it did not store.                        *)
(***************************************************************************)
\* the entries the folder may hold, sorted by name:
\*   1  Diplom__a_b__x_<id a>_1.pdf       2  ENT__a_b__y_<id b>_1.png
\*   3  MedSpravka__c_d__z_<id c>_1.pdf, a directory       4  notes.txt
StoredEntries ==
    <<[name |-> Candidate(BaseName("Diplom", <<97>>, <<98>>, <<120, 46, 112, 100, 102>>),
                          Uuid4(97), 1, <<46, 112, 100, 102>>),
       is_file |-> TRUE],
      [name |-> Candidate(BaseName("ENT", <<97>>, <<98>>, <<121, 46, 112, 110, 103>>),
                          Uuid4(98), 1, <<46, 112, 110, 103>>),
       is_file |-> TRUE],
      [name |-> Candidate(BaseName("MedSpravka", <<99>>, <<100>>, <<122, 46, 112, 100, 102>>),
                          Uuid4(99), 1, <<46, 112, 100, 102>>),
       is_file |-> FALSE],
      [name |-> <<110, 111, 116, 101, 115, 46, 116, 120, 116>>, is_file |-> TRUE]>>

\* file_path.name
FileName(n) == StoredEntries[n].name

\* the ids asked for: of entry 1, of entry 2, of the directory
FileIds == {Uuid4(97), Uuid4(98), Uuid4(99)}

\* the folders the first call may find
StoredFolders ==
    {[n \in held |-> [is_file |-> StoredEntries[n].is_file, mtime |-> 0]] :
        held \in SUBSET (1..Len(StoredEntries))}

\* file_path.is_file(): False for a path that does not exist
IsFile(dir, n) == n \in DOMAIN dir /\ dir[n].is_file

\* a lookup by the original name in place of the id
MatchesOriginal(metadata, file_id) == metadata.original = file_id

\* metadata.get("id") == file_id
MatchesId(metadata, file_id) == metadata.id = file_id

\* the loop of download_file and delete_file: the first path listed that is
\* a file, parses and has the id; target_file = None is 0
RECURSIVE FindById(_, _, _)
FindById(listing, dir, file_id) ==
    IF listing = <<>> THEN 0
    ELSE LET file_path == Head(listing)
             metadata == parse_stored_filename(FileName(file_path))
         IN  IF ~IsFile(dir, file_path) THEN FindById(Tail(listing), dir, file_id)
             ELSE IF metadata = None THEN FindById(Tail(listing), dir, file_id)
             ELSE IF MatchesId(metadata, file_id) THEN file_path
             ELSE FindById(Tail(listing), dir, file_id)

\* the filters of list_files; an argument left out, or empty, does not filter
ListFilter(metadata, category, name, lastname) ==
    /\ category = <<>> \/ metadata.category = category
    /\ name = <<>> \/ Contains(metadata.name, sanitize(name))
    /\ lastname = <<>> \/ Contains(metadata.name, sanitize(lastname))

\* the filters of download_zip
ZipFilter(metadata, category, name, lastname) ==
    /\ Contains(metadata.name, sanitize(name))
    /\ Contains(metadata.name, sanitize(lastname))
    /\ category = <<>> \/ metadata.category = category

\* the loop of download_zip: matching_files
RECURSIVE Matching(_, _, _, _, _)
Matching(listing, dir, category, name, lastname) ==
    IF listing = <<>> THEN <<>>
    ELSE LET file_path == Head(listing)
             metadata == parse_stored_filename(FileName(file_path))
             rest == Matching(Tail(listing), dir, category, name, lastname)
         IN  IF ~IsFile(dir, file_path) THEN rest
             ELSE IF metadata = None THEN rest
             ELSE IF ZipFilter(metadata, category, name, lastname) THEN <<file_path>> \o rest
             ELSE rest

\* ProcessedFile(id=metadata["id"], ..., status="saved"), of list_files
Listed(n) ==
    LET metadata == parse_stored_filename(FileName(n))
    IN  [id |-> metadata.id, original_name |-> metadata.original,
         category |-> metadata.category, filename |-> FileName(n), status |-> "saved"]

\* no handler is running, and one more call may be made
Ready == scan.pc \in {"idle", "returned", "unhandled"} /\ calls < MaxCalls

\* a handler is between two of its steps
Scanning == scan.pc \notin {"off", "idle", "returned", "unhandled"}

\* the handler is entered (before, gone_before: the folder and the ids deleted
\* so far, kept for the history)
Enter(op) ==
    [NoScan EXCEPT !.op = op, !.pc = "entered", !.listing = Iterdir(DOMAIN folder),
                   !.before = folder, !.gone_before = gone]

\* return ..., or raise HTTPException(status_code=...)
Answer(c, status) == [c EXCEPT !.pc = "returned", !.status = status]

\* an exception no handler catches
Unhandled(c) == [c EXCEPT !.pc = "unhandled", !.status = 500]

InitScan ==
    /\ folder \in StoredFolders
    /\ scan = [NoScan EXCEPT !.pc = "idle"]
    /\ calls = 0
    /\ gone = {}
    /\ IdleRL
    /\ IdleCC
    /\ IdleLife
    /\ IdleSan
    /\ IdleCodec
    /\ IdleClassify
    /\ IdleCache
    /\ IdleUp
    /\ IdleSweep
    /\ IdleWA

\* list_files(category, name, lastname): sorted(settings.upload_folder.iterdir())
ListFiles(category, name, lastname) ==
    /\ Ready
    /\ scan' = [Enter("list_files") EXCEPT !.pc = "visit", !.k = 1, !.category = category,
                                            !.name = name, !.lastname = lastname]
    /\ calls' = calls + 1
    /\ UNCHANGED <<folder, gone, notScan>>

\* one turn of the loop of list_files, up to file_path.stat()
ListVisit ==
    /\ scan.op = "list_files"
    /\ scan.pc = "visit"
    /\ scan.k <= Len(scan.listing)
    /\ LET file_path == scan.listing[scan.k]
           metadata == parse_stored_filename(FileName(file_path))
       IN  IF /\ IsFile(folder, file_path)
              /\ metadata # None
              /\ ListFilter(metadata, scan.category, scan.name, scan.lastname)
           THEN scan' = [scan EXCEPT !.pc = "stat"]
           ELSE scan' = [scan EXCEPT !.k = @ + 1]
    /\ UNCHANGED <<folder, calls, gone, notScan>>

\* stat = file_path.stat(); results.append(...); except OSError: logged
ListStat ==
    /\ scan.op = "list_files"
    /\ scan.pc = "stat"
    /\ LET file_path == scan.listing[scan.k]
       IN  scan' = [scan EXCEPT !.pc = "visit", !.k = @ + 1,
                                !.results = IF file_path \in DOMAIN folder
                                            THEN Append(@, Listed(file_path)) ELSE @]
    /\ UNCHANGED <<folder, calls, gone, notScan>>

\* return results
ListReturn ==
    /\ scan.op = "list_files"
    /\ scan.pc = "visit"
    /\ scan.k > Len(scan.listing)
    /\ scan' = Answer(scan, 200)
    /\ UNCHANGED <<folder, calls, gone, notScan>>

\* download_file(file_id): the loop that finds target_file
DownloadFile(file_id) ==
    /\ Ready
    /\ LET entered == [Enter("download_file") EXCEPT !.file_id = file_id]
           target_file == FindById(entered.listing, folder, file_id)
       IN  scan' = IF target_file = 0 THEN Answer(entered, 404)
                   ELSE [entered EXCEPT !.pc = "exists", !.target = target_file]
    /\ calls' = calls + 1
    /\ UNCHANGED <<folder, gone, notScan>>

\* if not target_file or not target_file.exists(): 404; return FileResponse(...)
DownloadExists ==
    /\ scan.op = "download_file"
    /\ scan.pc = "exists"
    /\ scan' = IF scan.target \in DOMAIN folder THEN [scan EXCEPT !.pc = "send"]
               ELSE Answer(scan, 404)
    /\ UNCHANGED <<folder, calls, gone, notScan>>

\* the FileResponse is sent: it stats and opens path, RuntimeError if it is gone
DownloadSend ==
    /\ scan.op = "download_file"
    /\ scan.pc = "send"
    /\ scan' = IF scan.target \in DOMAIN folder THEN Answer(scan, 200) ELSE Unhandled(scan)
    /\ UNCHANGED <<folder, calls, gone, notScan>>

\* download_zip(name, lastname, category): the loop that collects matching_files
DownloadZip(name, lastname, category) ==
    /\ Ready
    /\ LET entered == [Enter("download_zip") EXCEPT !.category = category, !.name = name,
                                                  !.lastname = lastname]
           matching_files == Matching(entered.listing, folder, category, name, lastname)
       IN  scan' = IF matching_files = <<>> THEN Answer(entered, 404)
                   ELSE [entered EXCEPT !.pc = "archive", !.listing = matching_files, !.k = 1]
    /\ calls' = calls + 1
    /\ UNCHANGED <<folder, gone, notScan>>

\* archive.write(file_path, arcname=file_path.name): FileNotFoundError if it is gone
ZipWrite ==
    /\ scan.op = "download_zip"
    /\ scan.pc = "archive"
    /\ scan.k <= Len(scan.listing)
    /\ scan' = IF scan.listing[scan.k] \in DOMAIN folder
               THEN [scan EXCEPT !.k = @ + 1, !.results = Append(@, scan.listing[scan.k])]
               ELSE Unhandled(scan)
    /\ UNCHANGED <<folder, calls, gone, notScan>>

\* return StreamingResponse(zip_buffer, ...)
ZipReturn ==
    /\ scan.op = "download_zip"
    /\ scan.pc = "archive"
    /\ scan.k > Len(scan.listing)
    /\ scan' = Answer(scan, 200)
    /\ UNCHANGED <<folder, calls, gone, notScan>>

\* delete_file(file_id): the loop that finds target_file
DeleteFile(file_id) ==
    /\ Ready
    /\ LET entered == [Enter("delete_file") EXCEPT !.file_id = file_id]
           target_file == FindById(entered.listing, folder, file_id)
       IN  scan' = IF target_file = 0 THEN Answer(entered, 404)
                   ELSE [entered EXCEPT !.pc = "unlink", !.target = target_file]
    /\ calls' = calls + 1
    /\ UNCHANGED <<folder, gone, notScan>>

\* target_file.unlink(missing_ok=True); return FileDeleteResponse(status="deleted")
DeleteUnlink ==
    /\ scan.op = "delete_file"
    /\ scan.pc = "unlink"
    /\ folder' = Unlink(folder, scan.target)
    /\ scan' = Answer(scan, 200)
    /\ gone' = gone \cup {scan.file_id}
    /\ UNCHANGED <<calls, notScan>>

\* delete_file or cleanup_old_files, running beside the handler, unlinks a file
Vanish(n) ==
    /\ Scanning
    /\ IsFile(folder, n)
    /\ folder' = Unlink(folder, n)
    /\ UNCHANGED <<scan, calls, gone, notScan>>

\* the arguments drawn: a category, the first and the last name of entry 1
Filters == {<<>>, CategoryValue("ENT")}

NextLookup ==
    \/ \E file_id \in FileIds : DownloadFile(file_id)
    \/ DownloadExists
    \/ DownloadSend
    \/ \E file_id \in FileIds : DeleteFile(file_id)
    \/ DeleteUnlink

NextScan ==
    \/ NextLookup
    \/ \E category \in Filters : ListFiles(category, <<>>, <<>>)
    \/ ListVisit
    \/ ListStat
    \/ ListReturn
    \/ \E category \in Filters : DownloadZip(<<97>>, <<98>>, category)
    \/ ZipWrite
    \/ ZipReturn
    \/ \E n \in DOMAIN folder : Vanish(n)

SpecLookup == InitScan /\ [][NextLookup]_vars

SpecScan == InitScan /\ [][NextScan]_vars

(***************************************************************************)
(* The RateLimiter swept by cleanup_old_entries, next to a limiter that    *)
(* gets the same calls and is never swept (its deques are in log)          *)
(***************************************************************************)
\* the clock stops here: late enough for an identifier to be swept and to
\* call again
Horizon == 2 * Window + 2

InitRLS == Idle

\* time passes
TickS ==
    /\ now < Horizon
    /\ now' = now + 1
    /\ UNCHANGED <<requests, last, log, notRLS>>

\* RateLimiter.is_limited(identifier), on both limiters
IsLimitedBoth(id) ==
    /\ requests' = [k \in DOMAIN requests \cup {id} |->
                       IF k = id THEN AfterCall(Deque(id), now) ELSE requests[k]]
    /\ last' = [id |-> id, at |-> now, limited |-> Limited(Prune(Deque(id), now))]
    /\ log' = [log EXCEPT ![id] = AfterCall(@, now)]
    /\ UNCHANGED <<now, notRLS>>

\* RateLimiter.cleanup_old_entries(), on the swept limiter alone
CleanupSwept ==
    LET expired == {k \in DOMAIN requests : Expired(requests[k], now)}
    IN  /\ requests' = [k \in DOMAIN requests \ expired |-> requests[k]]
        /\ UNCHANGED <<now, last, log, notRLS>>

NextRLS ==
    \/ TickS
    \/ \E id \in Ids : IsLimitedBoth(id)
    \/ CleanupSwept

SpecRLS == InitRLS /\ [][NextRLS]_vars

(***************************************************************************)
(* lifespan: the cleanup loop, the executor, the shutdown                  *)
(*                                                                         *)
(* The event loop runs one task at a time: from the return of              *)
(* asyncio.sleep to the next await of it the loop body runs without        *)
(* suspending (cleanup_old_files awaits nothing, and the lock of the       *)
(* limiter is never held across a suspension), so nothing else of the      *)
(* event loop runs meanwhile. The jobs of the executor run in threads.     *)
(***************************************************************************)
\* app.state.cleanup_task = asyncio.create_task(cleanup_loop()); yield
InitLife ==
    /\ life = [NoLife EXCEPT !.app = "running", !.loop = "created"]
    /\ IdleRL
    /\ IdleCC
    /\ IdleSan
    /\ IdleCodec
    /\ IdleClassify
    /\ IdleCache
    /\ IdleUp
    /\ IdleFs

\* the task of the loop is running its body
Busy == life.loop \in {"files", "entries"}

\* a loop that an exception of its body ends
Uncaught == "stopped"

\* except Exception: logger.exception("Cleanup loop error"), and on to the next
\* turn of while True: await asyncio.sleep(...)
Caught == "sleep"

\* the task takes its first step: while True: try: await asyncio.sleep(...)
LoopStart ==
    /\ life.loop = "created"
    /\ ~life.cancel
    /\ life' = [life EXCEPT !.loop = "sleep"]
    /\ UNCHANGED notLife

\* the task was cancelled before its first step: the coroutine never runs
LoopNeverStarts ==
    /\ life.loop = "created"
    /\ life.cancel
    /\ life' = [life EXCEPT !.loop = "stopped"]
    /\ UNCHANGED notLife

\* asyncio.sleep returns; await cleanup_old_files() is called
SleepReturns ==
    /\ life.loop = "sleep"
    /\ ~life.cancel
    /\ life' = [life EXCEPT !.loop = "files", !.failed = FALSE]
    /\ UNCHANGED notLife

\* asyncio.sleep raises CancelledError; except asyncio.CancelledError: break
SleepCancelled ==
    /\ life.loop = "sleep"
    /\ life.cancel
    /\ life' = [life EXCEPT !.loop = "stopped"]
    /\ UNCHANGED notLife

\* cleanup_old_files returns; await app.state.rate_limiter.cleanup_old_entries()
FilesReturns ==
    /\ life.loop = "files"
    /\ life' = [life EXCEPT !.loop = "entries", !.recovered = @ \/ life.raised # ""]
    /\ UNCHANGED notLife

\* cleanup_old_files raises (iterdir fails, say)
FilesRaises ==
    /\ life.loop = "files"
    /\ life' = [life EXCEPT !.loop = Caught, !.failed = TRUE, !.raised = "files"]
    /\ UNCHANGED notLife

\* cleanup_old_entries returns; the next turn of while True
EntriesReturns ==
    /\ life.loop = "entries"
    /\ life' = [life EXCEPT !.loop = "sleep"]
    /\ UNCHANGED notLife

\* cleanup_old_entries raises
EntriesRaises ==
    /\ life.loop = "entries"
    /\ life' = [life EXCEPT !.loop = Caught, !.failed = TRUE, !.raised = "entries"]
    /\ UNCHANGED notLife

\* loop.run_in_executor(executor, extract_text, ...) of a request
Submit ==
    /\ life.app \in {"running", "cancelling"}
    /\ ~Busy
    /\ life.inflight < MaxJobs
    /\ life' = [life EXCEPT !.inflight = @ + 1]
    /\ UNCHANGED notLife

\* a worker thread finishes its job
JobDone ==
    /\ life.inflight > 0
    /\ life' = [life EXCEPT !.inflight = @ - 1]
    /\ UNCHANGED notLife

\* after yield: app.state.cleanup_task.cancel()
Shutdown ==
    /\ life.app = "running"
    /\ ~Busy
    /\ life' = [life EXCEPT !.app = "cancelling", !.cancel = TRUE]
    /\ UNCHANGED notLife

\* with suppress(asyncio.CancelledError): await app.state.cleanup_task, then
\* app.state.executor.shutdown(wait=True) is called
AwaitTask ==
    /\ life.app = "cancelling"
    /\ life.loop = "stopped"
    /\ life' = [life EXCEPT !.app = "pool", !.waited = life.inflight > 0]
    /\ UNCHANGED notLife

\* executor.shutdown(wait=True) returns; "Application shutdown complete"
PoolShutdown ==
    /\ life.app = "pool"
    /\ life.inflight = 0
    /\ life' = [life EXCEPT !.app = "complete"]
    /\ UNCHANGED notLife

NextLife ==
    \/ LoopStart
    \/ LoopNeverStarts
    \/ SleepReturns
    \/ SleepCancelled
    \/ FilesReturns
    \/ FilesRaises
    \/ EntriesReturns
    \/ EntriesRaises
    \/ Submit
    \/ JobDone
    \/ Shutdown
    \/ AwaitTask
    \/ PoolShutdown

SpecLife == InitLife /\ [][NextLife]_vars

\* the event loop runs the task of the loop when it can run (the sleep ends,
\* the cancellation is delivered), and the worker threads finish their jobs
SpecLifeFair ==
    /\ SpecLife
    /\ WF_vars(LoopStart)
    /\ WF_vars(LoopNeverStarts)
    /\ WF_vars(SleepReturns)
    /\ WF_vars(SleepCancelled)
    /\ WF_vars(FilesReturns \/ FilesRaises)
    /\ WF_vars(EntriesReturns \/ EntriesRaises)
    /\ WF_vars(JobDone)
    /\ WF_vars(AwaitTask)
    /\ WF_vars(PoolShutdown)

(***************************************************************************)
(* Claims about classify_text, under SpecClassify and SpecCache            *)
(***************************************************************************)
\* the most keyword hits any category has in the text
MaxHits(text) ==
    LET counts == {Hits(Categories[i], Lower(text)) : i \in 1..Len(Categories)}
    IN  CHOOSE m \in counts : \A n \in counts : n <= m

\* C9: classify_text returns the category with the most keyword hits, the one
\* earliest in the order Udostoverenie, ENT, Lgota, Diplom, Privivka, MedSpravka
\* among those that tie for the most; Unclassified if no keyword hits (and for
\* the empty text).
C9_MaxHitsEarliestWins ==
    cls.pc = "returned" =>
        IF MaxHits(cls.text) = 0
        THEN cls.result = Unclassified
        ELSE \E i \in 1..Len(Categories) :
                /\ cls.result = Categories[i]
                /\ Hits(Categories[i], Lower(cls.text)) = MaxHits(cls.text)
                /\ \A j \in 1..(i - 1) :
                      Hits(Categories[j], Lower(cls.text)) < MaxHits(cls.text)

\* two categories tie for the most hits and the earlier one is returned
C9_Witness ==
    /\ cls.pc = "returned"
    /\ MaxHits(cls.text) > 0
    /\ \E i, j \in 1..Len(Categories) :
          /\ i < j
          /\ cls.result = Categories[i]
          /\ Hits(Categories[i], Lower(cls.text)) = MaxHits(cls.text)
          /\ Hits(Categories[j], Lower(cls.text)) = MaxHits(cls.text)

\* C10: whatever the hits, misses and evictions so far, classify_text returns
\* for a text the category the uncached scoring returns for it, and every call
\* with the same text has returned the same category.
C10_CacheTransparent ==
    /\ call.pc = "returned" => call.result = classify_text_wrapped(call.text)
    /\ \A t \in CacheTexts : answers[t] \subseteq {classify_text_wrapped(t)}

\* a text classified before is classified again after its entry was evicted,
\* the cache being full
C10_Witness ==
    /\ call.pc = "returned"
    /\ call.repeated
    /\ ~call.hit
    /\ Len(cache) = CacheMaxSize
    /\ \E t \in CacheTexts : t # call.text /\ CacheFind(cache, CacheKey(t)) # 0

(***************************************************************************)
(* Claims about stored filenames, under SpecCodec                          *)
(***************************************************************************)
\* C7: parsing the name process_single_file builds returns the category, the
\* name pair sanitize(first)_sanitize(last), the sanitized original stem and
\* the id it was built from.
C7_RoundTrip ==
    codec.pc = "parsed" =>
        LET q == codec.parts
        IN  codec.parsed =
                [id |-> q.file_id,
                 category |-> CategoryValue(q.category),
                 name |-> sanitize(q.name) \o <<Underscore>> \o sanitize(q.lastname),
                 original |-> sanitize(PathStem(q.original_name))]

(***************************************************************************)
(* Claims about sanitize_name, under SpecSan                               *)
(***************************************************************************)
\* C8: sanitize_name is idempotent and never returns the empty string: for
\* every name and every max_length > 0, sanitizing the result again with the
\* same max_length returns it unchanged, and the result is not empty.
C8_Idempotent ==
    /\ san.pc \in {"once", "twice"} => san.once # <<>>
    /\ san.pc = "twice" => (san.twice = san.once /\ san.twice # <<>>)

(***************************************************************************)
(* Claims about the RateLimiter under concurrent callers, under SpecRLC    *)
(***************************************************************************)
Count(q, t) == Cardinality({i \in 1..Len(q) : q[i] = t})

\* C5: the prune / count / append sequence is mutually exclusive (at most one
\* task is inside is_limited or cleanup_old_entries), the calls admitted for one
\* identifier within the last Window seconds never number more than Rate, and
\* each of them has its timestamp in the identifier's deque.
C5_NoLostUpdate ==
    /\ Cardinality({t \in Tasks : pc[t] # "idle"}) <= 1
    /\ \A id \in Ids :
          LET recent == Recent(log[id], now)
          IN  /\ Len(recent) <= Rate
              /\ \A i \in 1..Len(recent) :
                    Count(recent, recent[i]) <= Count(Deque(id), recent[i])

\* a caller holding the lock is refused, the identifier's Rate admitted calls
\* all on record
C5_Witness ==
    \E t \in Callers :
        /\ pc[t] = "release"
        /\ loc[t].ret = "limited"
        /\ lock = t
        /\ Len(Recent(log[loc[t].id], now)) = Rate

(***************************************************************************)
(* Claims about the RateLimiter, under SpecRL                              *)
(***************************************************************************)
Called == last.id # ""

\* C3 as written: windows of Window seconds begin at an identifier's first call;
\* the first Rate calls of a window are admitted, the next one is limited, and
\* once Window seconds have elapsed a new window begins with full capacity.
C3_FixedWindow ==
    Called =>
        LET w == fixedWin[last.id]
        IN  /\ w.idx <= Rate => ~last.limited
            /\ w.idx = Rate + 1 => last.limited

\* C3 amended: a call made when the identifier has no admitted call in the last
\* Window seconds (none at all, or the latest more than Window seconds ago) and
\* the Rate - 1 calls after it are admitted; a later call of that burst made no
\* more than Window seconds after the burst began is limited.
C3_SlidingWindow ==
    Called =>
        LET b == burst[last.id]
        IN  /\ b.idx <= Rate => ~last.limited
            /\ (b.idx = Rate + 1 /\ last.at - b.start <= Window) => last.limited

\* an identifier that was limited has regained its capacity and used all of it
C3_Witness ==
    /\ Called
    /\ ~last.limited
    /\ burst[last.id].idx = Rate
    /\ burst[last.id].regained

\* C4 as written: in every state every identifier retains at most Rate
\* timestamps, all of them in [now - Window, now].
C4_EveryState ==
    \A id \in DOMAIN requests :
        /\ Len(requests[id]) <= Rate
        /\ \A i \in 1..Len(requests[id]) :
              now - Window <= requests[id][i] /\ requests[id][i] <= now

\* C4 amended: in every state every identifier retains at most Rate timestamps,
\* none of them later than now; and the identifier of the latest is_limited call
\* retains only timestamps in [at - Window, at], at being the time of that call.
C4_AfterCall ==
    /\ \A id \in DOMAIN requests :
          /\ Len(requests[id]) <= Rate
          /\ \A i \in 1..Len(requests[id]) : requests[id][i] <= now
    /\ (Called /\ last.id \in DOMAIN requests) =>
          \A i \in 1..Len(requests[last.id]) :
              /\ last.at - Window <= requests[last.id][i]
              /\ requests[last.id][i] <= last.at

\* a call has pruned the deque of an identifier that is full again
C4_Witness ==
    /\ Called
    /\ last.id \in DOMAIN requests
    /\ Len(requests[last.id]) = Rate
    /\ burst[last.id].regained
    /\ last.at = now


\* the step is a call of is_limited: the clock stands and the history of the
\* calls moves
IsLimitedStep ==
    /\ now' = now
    /\ last' # last \/ lastAdmit' # lastAdmit \/ burst' # burst \/ fixedWin' # fixedWin

\* the timestamps of q within the window that ends at `at`
WithinWindow(q, at) == SelectSeq(q, LAMBDA t : t >= at - Window)

\* C20: a call of is_limited that reports limited leaves the timestamps of its
\* identifier as pruning alone leaves them, nothing appended; a call that
\* reports not limited leaves them with one more timestamp, now, at the end;
\* the call reports limited exactly when Rate timestamps remain after pruning;
\* the sequences of all other identifiers are as they were.
C20_LimitedRecordsNothing ==
    [][IsLimitedStep =>
          LET id == last'.id
              pruned == WithinWindow(Deque(id), now)
          IN  /\ last'.at = now
              /\ last'.limited <=> Len(pruned) >= Rate
              /\ id \in DOMAIN requests'
              /\ requests'[id] = IF last'.limited THEN pruned ELSE Append(pruned, now)
              /\ DOMAIN requests' = DOMAIN requests \cup {id}
              /\ \A k \in DOMAIN requests \ {id} : requests'[k] = requests[k]]_vars

\* a call has just reported limited while the other identifier has timestamps
C20_Witness ==
    /\ last.limited
    /\ last.at = now
    /\ Len(requests[last.id]) = Rate
    /\ \E k \in DOMAIN requests \ {last.id} : requests[k] # <<>>

(***************************************************************************)
(* Claims about upload_files                                               *)
(***************************************************************************)
Responded == req.pc \in {"responded", "ended"}

\* the places in the returned list of the record of unit u
RecordsOf(u) == {k \in 1..Len(processed) : processed[k].id = FileId(u)}

\* C1: an exception in one unit of work never aborts the batch or a sibling:
\* once units are dispatched the request is never rejected, and when it
\* returns every unit has run to its end, a unit that raised has no record in
\* the list returned and every other unit has exactly one, with status saved
\* or unclassified.
C1_FailureIsolated ==
    /\ unit # <<>> => req.pc \in {"gather", "responded", "ended"}
    /\ Responded =>
          /\ req.status = 200
          /\ \A u \in Staged :
                /\ unit[u].pc = "done"
                /\ IF unit[u].raised # ""
                   THEN RecordsOf(u) = {}
                   ELSE /\ Cardinality(RecordsOf(u)) = 1
                        /\ \A k \in RecordsOf(u) :
                              processed[k].status \in {"saved", "unclassified"}

\* a batch has returned in which one unit raised during extraction and another
\* was saved
C1_Witness ==
    /\ Responded
    /\ \E u, v \in Staged :
          /\ unit[u].raised = "extract"
          /\ RecordsOf(u) = {}
          /\ \E k \in RecordsOf(v) : processed[k].status = "saved"

\* C2: when the processing of a request has ended, with a response or with a
\* rejection, no temporary file staged for it exists.
C2_TempsDeleted == req.pc \in {"rejected", "ended"} => temp = {}

NotStored(u) ==
    /\ unit[u].category \notin {"", Unclassified}
    /\ unit[u].raised = "write" \/ unit[u].exhausted

\* C6: a file classified into a category other than Unclassified that could not
\* be stored, write_atomic having failed or all 1000 candidate names existing,
\* is in the list returned with status failed.
C6_ReportedFailed ==
    Responded =>
        \A u \in Staged :
            NotStored(u) => \E k \in RecordsOf(u) : processed[k].status = "failed"

\* extract_text ran and got no text out of the engine: the document did not
\* open, or Tesseract failed or timed out on every page
ExtractionFailed(engine) ==
    /\ engine # NoEngine
    /\ engine.open # "ok" \/ \A i \in 1..Len(engine.ocr) : engine.ocr[i] # "ok"

CandidateOf(u, idx) == StoredName(unit[u].category, files[u].filename, FileId(u), idx)

\* C18: the name a unit writes under is its candidate with the smallest index
\* in 1..1000 that does not exist: every candidate with a smaller index exists
\* and was written by an earlier run, and the name itself does not exist until
\* the unit writes it, so the write replaces nothing; a unit gives up only when
\* all 1000 candidates exist, and then writes nothing.
C18_FirstFreeName ==
    \A u \in DOMAIN unit :
        /\ unit[u].filename # NoName =>
              /\ unit[u].filename.idx \in 1..CollisionLimit
              /\ unit[u].filename = CandidateOf(u, unit[u].filename.idx)
              /\ \A j \in 1..(unit[u].filename.idx - 1) :
                    CandidateOf(u, j) \in DOMAIN store /\ store[CandidateOf(u, j)] = 0
              /\ unit[u].pc = "write" => unit[u].filename \notin DOMAIN store
              /\ unit[u].filename \in DOMAIN store => store[unit[u].filename] = u
        /\ unit[u].exhausted =>
              /\ \A j \in 1..CollisionLimit : CandidateOf(u, j) \in DOMAIN store
              /\ unit[u].filename = NoName
              /\ \A n \in DOMAIN store : store[n] # u
        /\ unit[u].pc = "done" /\ unit[u].filename = NoName => \A n \in DOMAIN store : store[n] # u

\* a unit has saved its file under index 2, the name with index 1 being taken
C18_Witness ==
    \E u \in DOMAIN unit :
        /\ unit[u].pc = "done"
        /\ unit[u].status = "saved"
        /\ unit[u].filename.idx = 2
        /\ store[unit[u].filename] = u
        /\ store[CandidateOf(u, 1)] = 0

\* C19: when upload_files produces its list, every staged file has a unit and
\* every unit has completed, none is reading, extracting or writing; the list
\* holds the record of every unit that did not raise, once, and nothing else.
C19_ReturnsAfterAllUnits ==
    Responded =>
        /\ DOMAIN unit = Staged
        /\ \A u \in DOMAIN unit : unit[u].pc \notin {"read", "extract", "classify", "write"}
        /\ \A u \in DOMAIN unit :
              unit[u].raised = "" =>
                  \E k \in 1..Len(processed) :
                      /\ processed[k] = unit[u].result
                      /\ RecordsOf(u) = {k}
        /\ Len(processed) = Cardinality({u \in DOMAIN unit : unit[u].raised = ""})

\* a request of two units has returned, one saved, one failed in write_atomic
C19_Witness ==
    /\ Responded
    /\ \E u, v \in DOMAIN unit :
          /\ unit[u].raised = "write"
          /\ unit[v].status = "saved"
          /\ Len(processed) = 1

(***************************************************************************)
(* Claims about cleanup_old_files                                          *)
(***************************************************************************)
\* the entries of the folder before the run that the run has deleted
Deleted == DOMAIN sweep.before \ DOMAIN folder

\* C11: one run of cleanup_old_files deletes the regular files whose st_mtime is
\* before time.time() - max_file_age_days days, except those on which stat or
\* unlink raised OSError, and nothing else: every other entry is still there
\* as it was, whatever its place in the listing, and the count returned is
\* the number of files deleted.
C11_SweepDeletesOld ==
    sweep.pc = "returned" =>
        /\ \A n \in DOMAIN sweep.before :
              n \in Deleted <=>
                  /\ sweep.before[n].is_file
                  /\ sweep.before[n].mtime < sweep.now - max_file_age_days * Day
                  /\ sweep.errors[n] = ""
        /\ \A n \in DOMAIN folder : n \in DOMAIN sweep.before /\ folder[n] = sweep.before[n]
        /\ sweep.removed = Cardinality(Deleted)

\* a run that met an OSError on an old first file, went on and deleted the
\* second, aged max_file_age_days + 1 days
C11_Witness ==
    /\ sweep.pc = "returned"
    /\ DOMAIN sweep.before = {1, 2}
    /\ sweep.errors[1] # ""
    /\ sweep.before[1].mtime < Cutoff(sweep.now)
    /\ Deleted = {2}
    /\ sweep.before[2].mtime = sweep.now - (max_file_age_days + 1) * Day

(***************************************************************************)
(* Claims about write_atomic                                               *)
(***************************************************************************)
\* C12: whenever another task reads dest, before, during or after a call of
\* write_atomic(dest, data), it finds what dest held when the call was made
\* (no file, or the earlier content) or the whole of data, and only after the
\* replace; and when the call raises, dest holds what it held at the call and
\* the temporary file does not exist.
C12_NoPartialRead ==
    /\ seen # Unread =>
          \/ seen.content = wa.previous
          \/ seen.content = File(wa.data) /\ seen.at = "returned"
    /\ wa.pc = "raised" => Content(DestPath) = wa.previous /\ TmpPath \notin DOMAIN disk
    /\ wa.pc = "returned" => TmpPath \notin DOMAIN disk

\* dest was read while a part of the data only was in the temporary file, and
\* the call has then raised
C12_Witness ==
    /\ wa.pc = "raised"
    /\ seen # Unread
    /\ seen.at = "write"
    /\ 0 < seen.written /\ seen.written < Len(wa.data)
    /\ wa.previous # NoFile

\* C13: a request the rate limiter reports as limited is rejected (429) with
\* none of its files staged: no temporary file exists, no unit of work was
\* created, so nothing was extracted, and the store holds only what it held
\* before the request.
C13_AdmissionFirst ==
    req.status = 429 =>
        /\ req.pc = "rejected"
        /\ temp = {}
        /\ temp_files = <<>>
        /\ unit = <<>>
        /\ processed = <<>>
        /\ \A n \in DOMAIN store : store[n] = 0

\* a limited request whose files would all have been staged
C13_Witness ==
    /\ req.status = 429
    /\ Len(files) = MaxFiles
    /\ \A i \in 1..Len(files) : Accepted(files[i]) /\ ~files[i].too_large

\* an upload the allow-lists exclude: its extension, lower-cased, is not .pdf,
\* .jpg, .jpeg or .png, or it declares no content type, or one that,
\* lower-cased, is not in the MIME allow-list
Excluded(f) ==
    \/ Lower(PathSuffix(f.filename)) \notin
          {<<46, 112, 100, 102>>, <<46, 106, 112, 103>>, <<46, 106, 112, 101, 103>>,
           <<46, 112, 110, 103>>}
    \/ f.content_type = <<>>
    \/ Lower(f.content_type) \notin AllowedMimetypes

\* C14: an excluded upload never has a temporary file, is never staged, never
\* has a unit of work (so extract_text never sees it), is never stored and has
\* no record in the list returned; and when the request returns, every other
\* file of the batch has been through its unit of work.
C14_ExcludedUpfront ==
    \A i \in 1..Len(files) :
        IF Excluded(files[i])
        THEN /\ i \notin temp
             /\ i \notin Staged
             /\ i \notin DOMAIN unit
             /\ \A n \in DOMAIN store : store[n] # i
             /\ RecordsOf(i) = {}
        ELSE Responded => i \in DOMAIN unit /\ unit[i].pc = "done"

\* a request has returned the record of a saved file although another file of
\* the batch, with a text that classifies, declared no content type
C14_Witness ==
    /\ Responded
    /\ \E i, j \in 1..Len(files) :
          /\ files[i].content_type = <<>>
          /\ classify_text_wrapped(files[i].text) # Unclassified
          /\ \E k \in RecordsOf(j) : processed[k].status = "saved"

(***************************************************************************)
(* Claims about the handlers that scan the upload folder                   *)
(***************************************************************************)
\* C15: a file that disappears after a handler has listed it and before the
\* handler stats, opens or reads it never makes the handler end in an error
\* that nothing handles.
C15_DeletionTolerated == scan.pc # "unhandled"

\* the entries of folder dir that are files and decode to file_id
Decoding(dir, file_id) ==
    {n \in DOMAIN dir :
        /\ dir[n].is_file
        /\ parse_stored_filename(FileName(n)) # None
        /\ parse_stored_filename(FileName(n)).id = file_id}

\* C17: download_file(id) and delete_file(id), called one after the other,
\* answer not found (404) exactly when no file of the folder decodes to id;
\* once delete_file(id) has answered "deleted", every later call with that id
\* answers not found; a delete removes the one file that decodes to its id
\* and leaves every other entry, and a download leaves the folder, as it was.
C17_LookupById ==
    scan.pc = "returned" /\ scan.op \in {"download_file", "delete_file"} =>
        /\ scan.status = 404 <=> Decoding(scan.before, scan.file_id) = {}
        /\ scan.file_id \in scan.gone_before => scan.status = 404
        /\ IF scan.op = "delete_file" /\ scan.status = 200
           THEN /\ DOMAIN scan.before \ DOMAIN folder = Decoding(scan.before, scan.file_id)
                /\ \A n \in DOMAIN folder : n \in DOMAIN scan.before /\ folder[n] = scan.before[n]
                /\ Decoding(folder, scan.file_id) = {}
           ELSE folder = scan.before

\* download_file answers not found for an id that delete_file has deleted,
\* while a file with another id is still in the folder
C17_Witness ==
    /\ scan.pc = "returned"
    /\ scan.op = "download_file"
    /\ scan.status = 404
    /\ scan.file_id \in scan.gone_before
    /\ \E other \in FileIds \ {scan.file_id} : Decoding(folder, other) # {}

(***************************************************************************)
(* Claims about the cache of classify_text, under SpecCache                *)
(***************************************************************************)
\* a call of classify_text that stored a new entry in a full cache
Evicting == call.pc = "returned" /\ ~call.hit /\ call.evicted # <<>>

\* C21 as stated: the cache never holds more than its capacity, and the entry
\* a call evicts from the full cache is the one that was inserted earliest.
C21_EvictsEarliestInserted ==
    /\ Len(cache) <= CacheMaxSize
    /\ Evicting => call.evicted = call.earliest

\* C21: the cache never holds more than its capacity; a call evicts at most one
\* entry, only when it stores a new text in a full cache, and the entry evicted
\* is the least recently used one, the one whose last call (the call that
\* inserted it or a later call that hit it) is the earliest.
C21_EvictsLeastRecentlyUsed ==
    /\ Len(cache) <= CacheMaxSize
    /\ call.hit => call.evicted = <<>>
    /\ Len(call.evicted) <= 1
    /\ Evicting => /\ call.evicted = call.stalest
                   /\ Len(cache) = CacheMaxSize
    /\ Len(call.used) = Len(cache)
    /\ \A i \in 1..Len(cache) : CacheFind(cache, call.used[i]) # 0

\* a call evicts the least recently used entry while the entry inserted
\* earliest, hit since, stays in the cache
C21_Witness ==
    /\ Evicting
    /\ call.evicted = call.stalest
    /\ call.evicted # call.earliest

(***************************************************************************)
(* Claims about the fragments sanitize_name returns, under SpecSan         *)
(***************************************************************************)
\* C22: for every name and every max_length > 0 the result of sanitize_name
\* holds only alphanumeric characters, "_" and "-", holds no two consecutive
\* underscores, neither starts nor ends with an underscore and is at most
\* max_length long, so that it holds no "__" separator and makes none when
\* joined to its neighbours with single underscores.
C22_SafeFragment ==
    san.pc \in {"once", "twice"} =>
        /\ \A i \in 1..Len(san.once) :
              IsAlnum(san.once[i]) \/ san.once[i] \in {Underscore, Hyphen}
        /\ ~HasDouble(san.once)
        /\ san.once # <<>> => (Head(san.once) # Underscore
                               /\ san.once[Len(san.once)] # Underscore)
        /\ Len(san.once) <= san.max_length
        /\ ~HasDouble(<<Underscore>> \o san.once \o <<Underscore>>)

(***************************************************************************)
(* Claims about the records of process_single_file, under SpecUp           *)
(***************************************************************************)
\* the units that returned a record
Returned == {u \in DOMAIN unit : unit[u].pc = "done" /\ unit[u].result # None}

\* the names of the store whose file holds the bytes of the u-th upload
WrittenBy(u) == {n \in DOMAIN store : store[n] = u}

\* C23: a record returned by process_single_file has status saved if and only
\* if its filename is not empty, and then exactly one file, of that name, was
\* written to the store, with the bytes of the upload and for a category other
\* than Unclassified; a file classified Unclassified is discarded: nothing of
\* it is in the store and its record has no filename and status unclassified.
C23_RecordMatchesStore ==
    \A u \in Returned :
        LET r == unit[u].result
        IN  /\ r.status = "saved" <=> r.filename # NoName
            /\ r.category = Unclassified =>
                  /\ r.filename = NoName
                  /\ r.status = "unclassified"
            /\ WrittenBy(u) = IF r.status = "saved" /\ r.category # Unclassified
                              THEN {r.filename}
                              ELSE {}

\* one request whose first file was saved under a name of the store and whose
\* second file, classified Unclassified, was discarded
C23_Witness ==
    /\ req.pc = "responded"
    /\ Returned = {1, 2}
    /\ unit[1].result.status = "saved"
    /\ WrittenBy(1) = {unit[1].result.filename}
    /\ unit[2].result.category = Unclassified
    /\ WrittenBy(2) = {}

(***************************************************************************)
(* Claims about cleanup_old_entries, under SpecRLS                         *)
(***************************************************************************)
\* the identifiers the sweep has removed and that have not called since
Swept == {id \in Ids \ DOMAIN requests : log[id] # <<>>}

\* C24: cleanup_old_entries removes only identifiers whose most recent
\* timestamp is older than now - 2 * Window, never one holding a timestamp
\* inside the window, and it is transparent to admission: an identifier it
\* left alone has the timestamps it has in the limiter that is never swept,
\* and for every identifier and every time from now on is_limited returns the
\* same result, and leaves the same timestamps, on both limiters.
C24_SweepTransparent ==
    /\ \A id \in Swept :
          /\ log[id][Len(log[id])] < now - 2 * Window
          /\ \A i \in 1..Len(log[id]) : log[id][i] < now - Window
    /\ \A id \in DOMAIN requests : requests[id] = log[id]
    /\ \A id \in Ids, t \in now..Horizon :
          /\ Limited(Prune(Deque(id), t)) <=> Limited(Prune(log[id], t))
          /\ AfterCall(Deque(id), t) = AfterCall(log[id], t)

\* the sweep has removed an identifier that had been admitted and has left
\* alone one that holds a timestamp inside the window
C24_Witness ==
    /\ Swept # {}
    /\ \E k \in DOMAIN requests :
          requests[k] # <<>> /\ requests[k][Len(requests[k])] >= now - Window

(***************************************************************************)
(* Claims about lifespan, under SpecLifeFair                               *)
(***************************************************************************)
\* the loop has ended only if it was cancelled, an exception of an iteration
\* leaves it waiting for the next one, and the shutdown is past the wait for
\* the task only if the loop has ended, complete only if no job is in flight
LoopKept ==
    /\ life.loop = "stopped" => life.cancel /\ life.app # "running"
    /\ life.failed => life.loop \in {"sleep", "stopped"}
    /\ life.app \in {"pool", "complete"} => life.loop = "stopped"
    /\ life.app = "complete" => life.inflight = 0

\* C25: the cleanup loop runs for the lifetime of the application: an
\* exception raised by an iteration does not end it, and cleanup_old_files
\* is called again afterwards unless the shutdown comes first; the loop ends
\* only when cancelled at shutdown, and the shutdown completes only after
\* the loop has ended and the executor has no job in flight.
C25_LoopOutlivesErrors ==
    /\ []LoopKept
    /\ life.failed ~> (life.loop = "files" \/ life.cancel)

\* an iteration raised, a later one swept, and the shutdown, which found a
\* job in flight, is complete
C25_Witness ==
    /\ life.app = "complete"
    /\ life.raised # ""
    /\ life.recovered
    /\ life.waited

====
